---- MODULE Spec2Model ----
(***************************************************************************)
(* Layout engine of the chip-visualization package: the square lattice of  *)
(* visualization/lattice.py, the Xmon and Josephson-junction chain of      *)
(* visualization/primitives.py, the tunable-transmon coupler of            *)
(* visualization/qubits.py and the lattice loops of                        *)
(* visualization_3d/renderer.py.                                           *)
(*                                                                         *)
(* Numbers.  The program computes in floating point with the divisions     *)
(* /2 and /1.5 and the factor 0.85.  Every geometric quantity of the model *)
(* is an integer count of 1/120 of a drawing unit (Fx), so that these      *)
(* three operations are exact on whole-unit dimensions.  Dimension records *)
(* hold whole units; LatticeConfig.pitch, which the constructor may        *)
(* overwrite with a computed value, is held in 1/120 units.                *)
(***************************************************************************)
EXTENDS Integers, Sequences, FiniteSets, TLC

VARIABLES configs, lattices, outcome, parts, last, views, scene

vars == <<configs, lattices, outcome, parts, last, views, scene>>

\* The variables of the lattice and those of the stand-alone components.
latticeVars == <<configs, lattices, outcome>>

partVars == <<parts, last>>

\* A caller who holds no mapping returned by the lattice.
NoViews == [site |-> <<>>, edge |-> <<>>, edits |-> 0]

\* Blender before anything is made: no material in bpy.data.materials, an
\* empty _MAT_CACHE, no material handle issued.
NoScene == [materials |-> <<>>, cache |-> <<>>, issued |-> 0]

\* ---------------------------------------------------------------- bounds
\* Largest number of lattice rows / columns a configuration asks for.
MaxRows == 3
MaxCols == 3

\* ------------------------------------------------------------ arithmetic
Fx(x) == 120 * x

Half(v) == v \div 2

\* pad_head_size / 1.5
DivOneAndHalf(v) == (2 * v) \div 3

\* d.width * 0.85
Times085(v) == (17 * v) \div 20

Abs(a) == IF a < 0 THEN -a ELSE a

\* The mutant of TruncDiv: the quotient rounded away from zero.
DivAwayFromZero(a, b) ==
    IF (a < 0) = (b < 0)
    THEN (Abs(a) + Abs(b) - 1) \div Abs(b)
    ELSE -((Abs(a) + Abs(b) - 1) \div Abs(b))

\* int(a / b) of Python: float division, truncated toward zero (b # 0).
TruncDiv(a, b) ==
    IF (a < 0) = (b < 0)
    THEN Abs(a) \div Abs(b)
    ELSE -(Abs(a) \div Abs(b))

\* range(n)
Range(n) == 0 .. (n - 1)

Ret(v) == [err |-> "none", value |-> v]

Raise(e) == [err |-> e]

\* (cos a, sin a) for the four cardinal directions, a taken mod 360.
Unit(deg) ==
    CASE deg % 360 = 0   -> <<1, 0>>
      [] deg % 360 = 90  -> <<0, 1>>
      [] deg % 360 = 180 -> <<-1, 0>>
      [] deg % 360 = 270 -> <<0, -1>>

\* rot @ v for a rotation by a multiple of 90 degrees.
Rot(v, deg) ==
    LET u == Unit(deg)
    IN  <<u[1] * v[1] - u[2] * v[2], u[2] * v[1] + u[1] * v[2]>>

Add(a, b) == <<a[1] + b[1], a[2] + b[2]>>

Sub(a, b) == <<a[1] - b[1], a[2] - b[2]>>

Dot(a, b) == a[1] * b[1] + a[2] * b[2]

Max(S) == CHOOSE x \in S : \A y \in S : y <= x

\* A sort of the site keys by (col, row), which is not Python's tuple order.
SortedSitesColumnMajor(S) ==
    IF S = {}
    THEN <<>>
    ELSE LET R == 1 + Max({s[1] : s \in S})
             C == 1 + Max({s[2] : s \in S})
             all == [i \in 1..(R * C) |-> <<(i - 1) % R, (i - 1) \div R>>]
             in(s) == s \in S
         IN  SelectSeq(all, in)

\* sorted(self._site_positions.items()): the (row, col) keys in Python's
\* tuple order, computed as a counting sort over the keys' bounding box.
SortedSites(S) ==
    IF S = {}
    THEN <<>>
    ELSE LET R == 1 + Max({s[1] : s \in S})
             C == 1 + Max({s[2] : s \in S})
             all == [i \in 1..(R * C) |-> <<(i - 1) \div C, (i - 1) % C>>]
             in(s) == s \in S
         IN  SelectSeq(all, in)

\* sorted(self._edge_positions.items()): the ((r1, c1), (r2, c2)) keys in
\* Python's tuple order (first site, then second site).
SortedEdges(S) ==
    IF S = {}
    THEN <<>>
    ELSE LET ends == {k[1] : k \in S} \cup {k[2] : k \in S}
             R == 1 + Max({s[1] : s \in ends})
             C == 1 + Max({s[2] : s \in ends})
             N == R * C
             site(j) == <<j \div C, j % C>>
             all == [i \in 1..(N * N) |->
                        <<site((i - 1) \div N), site((i - 1) % N)>>]
             in(k) == k \in S
         IN  SelectSeq(all, in)

\* ------------------------------------------------------------ primitives
CARDINAL == {0, 90, 180, 270}

\* Xmon.__init__: the per-arm lengths, resolved from the kind of record.
XmonArmLengths(dims) ==
    IF "long_arm_len" \in DOMAIN dims
    THEN [a \in CARDINAL |->
            IF a \in {0, 180} THEN dims.long_arm_len ELSE dims.short_arm_len]
    ELSE [a \in CARDINAL |-> dims.arm_len]

\* Xmon._generate: centre square, then an arm and a pad per direction;
\* each patch is <<x, y, w, h, local_angle>>.
XmonGenerate(arm_width, pad_head_size, arm_lengths) ==
    LET c == Half(Fx(arm_width))
        arm(a) == <<c, -c, Fx(arm_lengths[a]), Fx(arm_width), a>>
        pad(a) == <<c + Fx(arm_lengths[a]), -Half(Fx(pad_head_size)),
                    DivOneAndHalf(Fx(pad_head_size)), Fx(pad_head_size), a>>
    IN  <<<<-c, -c, Fx(arm_width), Fx(arm_width), 0>>,
          arm(0), pad(0), arm(90), pad(90),
          arm(180), pad(180), arm(270), pad(270)>>

\* Xmon(dims)
Xmon(dims) ==
    [dims          |-> dims,
     arm_width     |-> dims.arm_width,
     pad_head_size |-> dims.pad_head_size,
     _arm_lengths  |-> XmonArmLengths(dims),
     _patches      |-> XmonGenerate(dims.arm_width, dims.pad_head_size,
                                    XmonArmLengths(dims))]

\* An arm tip at the end of the arm, without the pad.
ArmTipWithoutPad(xmon, angle_deg) ==
    LET dist == Half(Fx(xmon.arm_width)) + Fx(xmon._arm_lengths[angle_deg])
        u    == Unit(angle_deg)
    IN  <<dist * u[1], dist * u[2]>>

\* Xmon.arm_tip
ArmTip(xmon, angle_deg) ==
    LET arm_l == Fx(xmon._arm_lengths[angle_deg])
        pad_w == DivOneAndHalf(Fx(xmon.pad_head_size))
        dist  == Half(Fx(xmon.arm_width)) + arm_l + pad_w
        u     == Unit(angle_deg)
    IN  <<dist * u[1], dist * u[2]>>

\* JJChain with a validation the program does not have: a non-positive
\* length is rejected.
JJChainValidating(d) ==
    IF d.length <= 0 \/ d.island_len + d.gap = 0
    THEN Raise("ValueError")
    ELSE Ret([dims         |-> d,
              _islands     |-> <<>>,
              _bridges     |-> <<>>,
              total_length |-> Fx(d.island_len)])

\* A chain whose bridges start at the end of the island, with no overlap
\* into it.
JJChainBridgesFromIslandEnd(d) ==
    LET unit == d.island_len + d.gap
    IN  IF unit = 0
        THEN Raise("ZeroDivisionError")
        ELSE LET n_cells    == TruncDiv(d.length, unit)
                 bridge_len == d.gap + 2 * d.overlap
                 bw         == Times085(Fx(d.width))
                 island(i)  == <<Fx(i * unit), -Half(Fx(d.width)),
                                 Fx(d.island_len), Fx(d.width)>>
                 bridge(i)  == <<Fx(i * unit + d.island_len),
                                 -Half(bw), Fx(bridge_len), bw>>
                 x_end      == IF n_cells + 1 > 0 THEN (n_cells + 1) * unit ELSE 0
             IN  Ret([dims         |-> d,
                      _islands     |-> [i \in 1..(n_cells + 1) |-> island(i - 1)],
                      _bridges     |-> [i \in 1..n_cells |-> bridge(i - 1)],
                      total_length |-> Fx(x_end - unit + d.island_len)])

\* A chain of n_cells islands only, without the trailing island.
JJChainWithoutTrailingIsland(d) ==
    LET unit == d.island_len + d.gap
    IN  IF unit = 0
        THEN Raise("ZeroDivisionError")
        ELSE LET n_cells == TruncDiv(d.length, unit)
                 bw      == Times085(Fx(d.width))
             IN  Ret([dims         |-> d,
                      _islands     |-> [i \in 1..n_cells |->
                                          <<Fx((i - 1) * unit), -Half(Fx(d.width)),
                                            Fx(d.island_len), Fx(d.width)>>],
                      _bridges     |-> [i \in 1..(n_cells - 1) |->
                                          <<Fx((i - 1) * unit + d.island_len - d.overlap),
                                            -Half(bw), Fx(d.gap + 2 * d.overlap), bw>>],
                      total_length |-> Fx(n_cells * unit - d.gap)])

\* JJChain.__init__ + _generate: islands and bridges are <<x, y, w, h>>.
\* The division by unit raises ZeroDivisionError when island_len + gap = 0.
JJChain(d) ==
    LET unit == d.island_len + d.gap
    IN  IF unit = 0
        THEN Raise("ZeroDivisionError")
        ELSE LET n_cells    == TruncDiv(d.length, unit)
                 bridge_len == d.gap + 2 * d.overlap
                 bw         == Times085(Fx(d.width))
                 island(i)  == <<Fx(i * unit), -Half(Fx(d.width)),
                                 Fx(d.island_len), Fx(d.width)>>
                 bridge(i)  == <<Fx(i * unit + d.island_len - d.overlap),
                                 -Half(bw), Fx(bridge_len), bw>>
                 x_end      == IF n_cells + 1 > 0 THEN (n_cells + 1) * unit ELSE 0
             IN  Ret([dims         |-> d,
                      _islands     |-> [i \in 1..(n_cells + 1) |-> island(i - 1)],
                      _bridges     |-> [i \in 1..n_cells |-> bridge(i - 1)],
                      total_length |-> Fx(x_end - unit + d.island_len)])

\* FluxoniumQubit.__init__
FluxoniumQubit(dims) ==
    LET chain == JJChain(dims.chain)
    IN  IF chain.err # "none"
        THEN chain
        ELSE Ret([dims |-> dims, _xmon |-> Xmon(dims.xmon), _chain |-> chain.value])

\* TunableTransmonCoupler._SHORT_ARM_ANGLES
SHORT_ARM_ANGLES == [k \in {0, 1} |-> IF k = 0 THEN 90 ELSE 270]

\* TunableTransmonCoupler.__init__
TunableTransmonCoupler(dims) ==
    [dims         |-> dims,
     _xmon        |-> Xmon(dims.xmon),
     _squid_angle |-> SHORT_ARM_ANGLES[dims.squid_arm_index],
     _res_angle   |-> SHORT_ARM_ANGLES[dims.resonator_arm_index]]

\* --------------------------------------------------------------- lattice
\* _edge_angle
EdgeAngle(direction) == IF direction = "horizontal" THEN 0 ELSE 90

\* _compute_min_pitch measuring the coupler's short arm instead of the long
\* arm that faces the data qubit.
ComputeMinPitchShortArm(fluxonium_dims, coupler_dims, cfg) ==
    LET fx     == fluxonium_dims.xmon
        fx_tip == Half(Fx(fx.arm_width)) + Fx(fx.arm_len)
                  + DivOneAndHalf(Fx(fx.pad_head_size))
        tx     == coupler_dims.xmon
        tx_tip == Half(Fx(tx.arm_width)) + Fx(tx.short_arm_len)
                  + DivOneAndHalf(Fx(tx.pad_head_size))
    IN  2 * (fx_tip + tx_tip + Fx(cfg.pad_gap))

\* SquareLattice._compute_min_pitch
ComputeMinPitch(fluxonium_dims, coupler_dims, cfg) ==
    LET fx     == fluxonium_dims.xmon
        fx_tip == Half(Fx(fx.arm_width)) + Fx(fx.arm_len)
                  + DivOneAndHalf(Fx(fx.pad_head_size))
        tx     == coupler_dims.xmon
        tx_tip == Half(Fx(tx.arm_width)) + Fx(tx.long_arm_len)
                  + DivOneAndHalf(Fx(tx.pad_head_size))
    IN  2 * (fx_tip + tx_tip + Fx(cfg.pad_gap))

\* The site loop with x and y exchanged.
BuildSitesSwapped(rows, cols, p) ==
    [s \in {<<r, c>> : r \in Range(rows), c \in Range(cols)} |->
        <<s[1] * p, s[2] * p>>]

\* The site loop with the grid size clamped to at least one row and column.
BuildSitesClamped(rows, cols, p) ==
    [s \in {<<r, c>> : r \in Range(IF rows < 1 THEN 1 ELSE rows),
                       c \in Range(IF cols < 1 THEN 1 ELSE cols)} |->
        <<s[2] * p, s[1] * p>>]

\* SquareLattice._build_positions, first loop: _site_positions.
BuildSites(rows, cols, p) ==
    [s \in {<<r, c>> : r \in Range(rows), c \in Range(cols)} |->
        <<s[2] * p, s[1] * p>>]

\* The key set of the horizontal-edge loop.
HorizontalKeys(rows, cols) ==
    {<<<<r, c>>, <<r, c + 1>>>> : r \in Range(rows), c \in Range(cols - 1)}

\* The vertical-edge loop storing its keys upper site first.
VerticalKeysReversed(rows, cols) ==
    {<<<<r + 1, c>>, <<r, c>>>> : r \in Range(rows - 1), c \in Range(cols)}

\* The key set of the vertical-edge loop.
VerticalKeys(rows, cols) ==
    {<<<<r, c>>, <<r + 1, c>>>> : r \in Range(rows - 1), c \in Range(cols)}

\* SquareLattice._build_positions, second and third loop: _edge_positions.
BuildEdges(rows, cols, sites) ==
    LET H == HorizontalKeys(rows, cols)
        V == VerticalKeys(rows, cols)
        mid(k) == <<Half(sites[k[1]][1] + sites[k[2]][1]),
                    Half(sites[k[1]][2] + sites[k[2]][2])>>
    IN  [k \in H \cup V |->
            [xy |-> mid(k),
             direction |-> IF k \in V THEN "vertical" ELSE "horizontal"]]

\* _cell_type alternating along the rows only.
CellTypeRowOnly(r, c, first_cell) ==
    IF r % 2 = 0
    THEN first_cell
    ELSE IF first_cell = "resonator" THEN "flux_line" ELSE "resonator"

\* SquareLattice._cell_type
CellType(r, c, first_cell) ==
    IF (r + c) % 2 = 0
    THEN first_cell
    ELSE IF first_cell = "resonator" THEN "flux_line" ELSE "resonator"

\* _mirror_for_edge whose single-neighbour branches use the same sense as
\* the branches for the cell above / to the right.
MirrorForEdgeSameSense(cfg, edge_key, direction, first_cell) ==
    LET r == edge_key[1][1]
        c == edge_key[1][2]
    IN  IF direction = "horizontal"
        THEN IF r < cfg.rows - 1
             THEN Ret((IF (r + c) % 2 = 0 THEN first_cell
                       ELSE IF first_cell = "resonator" THEN "flux_line"
                            ELSE "resonator") = "resonator")
             ELSE IF r > 0
                  THEN Ret((IF (r - 1 + c) % 2 = 0 THEN first_cell
                            ELSE IF first_cell = "resonator" THEN "flux_line"
                                 ELSE "resonator") = "resonator")
                  ELSE Raise("TypeError")
        ELSE IF c < cfg.cols - 1
             THEN Ret((IF (r + c) % 2 = 0 THEN first_cell
                       ELSE IF first_cell = "resonator" THEN "flux_line"
                            ELSE "resonator") # "resonator")
             ELSE IF c > 0
                  THEN Ret((IF (r + c - 1) % 2 = 0 THEN first_cell
                            ELSE IF first_cell = "resonator" THEN "flux_line"
                                 ELSE "resonator") # "resonator")
                  ELSE Raise("TypeError")

\* _mirror_for_edge that gives up on a boundary edge and returns False where
\* the cell above / to the right is missing.
MirrorForEdgeBoundaryFalse(cfg, edge_key, direction, first_cell) ==
    LET r == edge_key[1][1]
        c == edge_key[1][2]
        res == (IF (r + c) % 2 = 0 THEN first_cell
                ELSE IF first_cell = "resonator" THEN "flux_line"
                     ELSE "resonator") = "resonator"
    IN  IF direction = "horizontal"
        THEN IF r < cfg.rows - 1 THEN Ret(res) ELSE Ret(FALSE)
        ELSE IF c < cfg.cols - 1 THEN Ret(~res) ELSE Ret(FALSE)

\* SquareLattice._mirror_for_edge.  A missing neighbour cell is None, and
\* unpacking None in the call of _cell_type raises TypeError.
MirrorForEdge(cfg, edge_key, direction, first_cell) ==
    LET r == edge_key[1][1]
        c == edge_key[1][2]
    IN  IF direction = "horizontal"
        THEN IF r < cfg.rows - 1
             THEN Ret(CellType(r, c, first_cell) = "resonator")
             ELSE IF r > 0
                  THEN Ret(CellType(r - 1, c, first_cell) # "resonator")
                  ELSE Raise("TypeError")
        ELSE IF c < cfg.cols - 1
             THEN Ret(CellType(r, c, first_cell) # "resonator")
             ELSE IF c > 0
                  THEN Ret(CellType(r, c - 1, first_cell) = "resonator")
                  ELSE Raise("TypeError")

\* A place that ignores its mirror argument.
CouplerPlaceWithoutSwap(coupler, xy, angle, mirror) ==
    [kind               |-> "coupler",
     xy                 |-> xy,
     angle              |-> angle,
     mirror             |-> mirror,
     squid_arm          |-> coupler._squid_angle,
     res_arm            |-> coupler._res_angle,
     squid_pos          |-> Add(Rot(ArmTip(coupler._xmon, coupler._squid_angle), angle), xy),
     squid_global_angle |-> angle + coupler._squid_angle,
     res_global_angle   |-> angle + coupler._res_angle + 180]

\* TunableTransmonCoupler.place: the arm assignment (swapped by mirror),
\* the SQUID position and the global angles handed to the sub-components.
CouplerPlace(coupler, xy, angle, mirror) ==
    LET squid_angle == IF mirror THEN coupler._res_angle ELSE coupler._squid_angle
        res_angle   == IF mirror THEN coupler._squid_angle ELSE coupler._res_angle
    IN  [kind               |-> "coupler",
         xy                 |-> xy,
         angle              |-> angle,
         mirror             |-> mirror,
         squid_arm          |-> squid_angle,
         res_arm            |-> res_angle,
         squid_pos          |-> Add(Rot(ArmTip(coupler._xmon, squid_angle), angle), xy),
         squid_global_angle |-> angle + squid_angle,
         res_global_angle   |-> angle + res_angle + 180]

\* SquareLattice._draw_cell_shading: one rectangle per interior unit cell.
DrawCellShading(cfg, origin, first_cell) ==
    LET p == cfg.pitch
        cells == SortedSites({<<r, c>> : r \in Range(cfg.rows - 1),
                                         c \in Range(cfg.cols - 1)})
    IN  [i \in 1..Len(cells) |->
            [kind |-> "shade",
             cell |-> cells[i],
             xy   |-> <<cells[i][2] * p + Half(p) + origin[1],
                        cells[i][1] * p + Half(p) + origin[2]>>,
             type |-> CellType(cells[i][1], cells[i][2], first_cell)]]

\* SquareLattice.place, the data-qubit loop.
PlaceDataQubits(lat, origin) ==
    LET keys == SortedSites(DOMAIN lat._site_positions)
    IN  [i \in 1..Len(keys) |->
            [kind |-> "data_qubit",
             site |-> keys[i],
             idx  |-> i - 1,
             xy   |-> Add(lat._site_positions[keys[i]], origin),
             angle |-> 0]]

\* SquareLattice.place, the coupler loop: the mirror flag of every edge in
\* sorted order, up to the first call of _mirror_for_edge that raises.
PlaceCouplers(lat, cfg, origin, cell_pattern, first_cell) ==
    LET keys == SortedEdges(DOMAIN lat._edge_positions)
        m(k) == IF cell_pattern = "checkerboard"
                THEN MirrorForEdge(cfg, k, lat._edge_positions[k].direction, first_cell)
                ELSE Ret(FALSE)
        bad  == {i \in 1..Len(keys) : m(keys[i]).err # "none"}
        stop == IF bad = {} THEN Len(keys) + 1
                ELSE CHOOSE i \in bad : \A j \in bad : i <= j
    IN  [err  |-> IF bad = {} THEN "none" ELSE m(keys[stop]).err,
         value |-> [i \in 1..(stop - 1) |->
                     [idx |-> i - 1, edge |-> keys[i]] @@
                     CouplerPlace(lat._coupler,
                                  Add(lat._edge_positions[keys[i]].xy, origin),
                                  EdgeAngle(lat._edge_positions[keys[i]].direction),
                                  m(keys[i]).value)]]

\* BlenderRenderer._draw_data_qubits
DrawDataQubits(lat) ==
    LET keys == SortedSites(DOMAIN lat._site_positions)
    IN  [i \in 1..Len(keys) |->
            [kind |-> "data_qubit",
             site |-> keys[i],
             idx  |-> i - 1,
             xy   |-> lat._site_positions[keys[i]],
             angle |-> 0]]

\* BlenderRenderer._draw_couplers: _mirror_for_edge is called with its
\* default first_cell.
DrawCouplers(lat, cfg) ==
    LET keys == SortedEdges(DOMAIN lat._edge_positions)
        m(k) == MirrorForEdge(cfg, k, lat._edge_positions[k].direction, "resonator")
        bad  == {i \in 1..Len(keys) : m(keys[i]).err # "none"}
        stop == IF bad = {} THEN Len(keys) + 1
                ELSE CHOOSE i \in bad : \A j \in bad : i <= j
    IN  [err  |-> IF bad = {} THEN "none" ELSE m(keys[stop]).err,
         value |-> [i \in 1..(stop - 1) |->
                     [idx |-> i - 1, edge |-> keys[i]] @@
                     CouplerPlace(lat._coupler,
                                  lat._edge_positions[keys[i]].xy,
                                  IF lat._edge_positions[keys[i]].direction = "horizontal"
                                  THEN 0 ELSE 90,
                                  m(keys[i]).value)]]

\* ---------------------------------------------------------------- inputs
\* The fluxonium dimension records a caller passes (FluxoniumDims): the
\* defaults of styles.py, and records with a non-positive arm length, chain
\* length or chain period (island_len + gap).
FluxoniumChoices ==
    {[xmon  |-> [arm_len |-> 140, arm_width |-> 30, pad_head_size |-> 60],
      chain |-> [length |-> 200, width |-> 15, island_len |-> 20, gap |-> 15,
                 overlap |-> 6]],
     [xmon  |-> [arm_len |-> 0, arm_width |-> 20, pad_head_size |-> 45],
      chain |-> [length |-> 0, width |-> 15, island_len |-> 20, gap |-> 15,
                 overlap |-> 6]],
     [xmon  |-> [arm_len |-> -10, arm_width |-> 30, pad_head_size |-> 60],
      chain |-> [length |-> -100, width |-> 10, island_len |-> 20, gap |-> 15,
                 overlap |-> 6]],
     [xmon  |-> [arm_len |-> 140, arm_width |-> 30, pad_head_size |-> 60],
      chain |-> [length |-> 200, width |-> 15, island_len |-> 20, gap |-> -20,
                 overlap |-> 6]],
     [xmon  |-> [arm_len |-> 100, arm_width |-> 20, pad_head_size |-> 45],
      chain |-> [length |-> 90, width |-> 15, island_len |-> 10, gap |-> -40,
                 overlap |-> 6]]}

\* The coupler dimension records a caller passes (TunableTransmonDims).
CouplerChoices ==
    {[xmon |-> [long_arm_len |-> 100, short_arm_len |-> 50,
                arm_width |-> 24, pad_head_size |-> 45],
      squid_arm_index |-> 0, resonator_arm_index |-> 1],
     [xmon |-> [long_arm_len |-> 80, short_arm_len |-> 40,
                arm_width |-> 20, pad_head_size |-> 30],
      squid_arm_index |-> 1, resonator_arm_index |-> 0]}

\* The (pitch, pad_gap) pairs of the configurations a caller passes.
PitchChoices == {<<0, 20>>, <<Fx(-5), 0>>, <<Fx(800), 20>>}

DefaultFluxonium ==
    [xmon  |-> [arm_len |-> 140, arm_width |-> 30, pad_head_size |-> 60],
     chain |-> [length |-> 200, width |-> 15, island_len |-> 20, gap |-> 15,
                overlap |-> 6]]

\* The constructor calls SquareLattice(config, fluxonium_dims, coupler_dims)
\* of the model: every grid size with the default fluxonium and pitch=0, and
\* every choice of dimensions and pitch on a 2 x 3 and on a 0 x 2 grid.
ConstructorCalls ==
    {<<[rows |-> r, cols |-> c, pitch |-> 0, pad_gap |-> 20], DefaultFluxonium, t>> :
        r \in -1..MaxRows, c \in -1..MaxCols, t \in CouplerChoices}
    \cup
    {<<[rows |-> rc[1], cols |-> rc[2], pitch |-> pg[1], pad_gap |-> pg[2]], f, t>> :
        rc \in {<<2, 3>>, <<0, 2>>}, pg \in PitchChoices,
        f \in FluxoniumChoices, t \in CouplerChoices}

FirstCells == {"resonator", "flux_line"}

Directions == {"horizontal", "vertical"}

\* The edge keys _mirror_for_edge is asked about: the edges of the largest
\* lattice, so that a smaller lattice is also asked about keys it lacks.
QueryKeys == HorizontalKeys(MaxRows, MaxCols) \cup VerticalKeys(MaxRows, MaxCols)

Origins == {<<0, 0>>, <<Fx(100), Fx(-50)>>}

\* ----------------------------------------------------------------- state
\* configs : the LatticeConfig objects, by identity.
\* lattices: the SquareLattice objects, by identity; before its constructor
\*           has run an entry holds the constructor's arguments.
\* outcome : per lattice, the most recent call on it, with its arguments,
\*           the exception it raised (err) and what it returned or drew.
NewLattice(cfg_id, fluxonium_dims, coupler_dims) ==
    [state |-> "new", cfg |-> cfg_id,
     fluxonium_dims |-> fluxonium_dims, coupler_dims |-> coupler_dims]

Init ==
    \E call \in ConstructorCalls :
        /\ configs = [i \in {1} |-> call[1]]
        /\ lattices = [i \in {1} |-> NewLattice(1, call[2], call[3])]
        /\ outcome = [i \in {1} |-> [op |-> "none", err |-> "none"]]
        /\ parts = <<>>
        /\ last = [op |-> "none"]
        /\ views = NoViews
        /\ scene = NoScene

\* A constructor that uses the computed pitch without storing it in the
\* configuration.
ConstructKeepsConfig(i) ==
    /\ lattices[i].state = "new"
    /\ LET lat   == lattices[i]
           cfg0  == configs[lat.cfg]
           pitch == IF cfg0.pitch <= 0
                    THEN ComputeMinPitch(lat.fluxonium_dims, lat.coupler_dims, cfg0)
                    ELSE cfg0.pitch
           cfg   == [cfg0 EXCEPT !.pitch = pitch]
           dq    == FluxoniumQubit(lat.fluxonium_dims)
           sites == BuildSites(cfg.rows, cfg.cols, cfg.pitch)
       IN  /\ configs' = configs
           /\ IF dq.err # "none"
              THEN lattices' = [lattices EXCEPT ![i].state = "failed"]
              ELSE lattices' = [lattices EXCEPT ![i] =
                       [state           |-> "built",
                        cfg             |-> lat.cfg,
                        fluxonium_dims  |-> lat.fluxonium_dims,
                        coupler_dims    |-> lat.coupler_dims,
                        _data_qubit     |-> dq.value,
                        _coupler        |-> TunableTransmonCoupler(lat.coupler_dims),
                        _site_positions |-> sites,
                        _edge_positions |-> BuildEdges(cfg.rows, cfg.cols, sites)]]
           /\ outcome' = [outcome EXCEPT ![i] =
                  [op |-> "construct", err |-> dq.err, pitch_arg |-> cfg0.pitch]]
    /\ UNCHANGED <<partVars, views, scene>>

\* SquareLattice.__init__
Construct(i) ==
    /\ lattices[i].state = "new"
    /\ LET lat   == lattices[i]
           cfg0  == configs[lat.cfg]
           pitch == IF cfg0.pitch <= 0
                    THEN ComputeMinPitch(lat.fluxonium_dims, lat.coupler_dims, cfg0)
                    ELSE cfg0.pitch
           cfg   == [cfg0 EXCEPT !.pitch = pitch]
           dq    == FluxoniumQubit(lat.fluxonium_dims)
           sites == BuildSites(cfg.rows, cfg.cols, cfg.pitch)
       IN  /\ configs' = [configs EXCEPT ![lat.cfg] = cfg]
           /\ IF dq.err # "none"
              THEN lattices' = [lattices EXCEPT ![i].state = "failed"]
              ELSE lattices' = [lattices EXCEPT ![i] =
                       [state           |-> "built",
                        cfg             |-> lat.cfg,
                        fluxonium_dims  |-> lat.fluxonium_dims,
                        coupler_dims    |-> lat.coupler_dims,
                        _data_qubit     |-> dq.value,
                        _coupler        |-> TunableTransmonCoupler(lat.coupler_dims),
                        _site_positions |-> sites,
                        _edge_positions |-> BuildEdges(cfg.rows, cfg.cols, sites)]]
           /\ outcome' = [outcome EXCEPT ![i] =
                  [op |-> "construct", err |-> dq.err, pitch_arg |-> cfg0.pitch]]
    /\ UNCHANGED <<partVars, views, scene>>

\* SquareLattice._mirror_for_edge(edge_key, direction, first_cell)
Mirror(i) ==
    /\ lattices[i].state = "built"
    /\ \E k \in QueryKeys, d \in Directions, fc \in FirstCells :
          outcome' = [outcome EXCEPT ![i] =
              [op |-> "mirror", edge_key |-> k, direction |-> d, first_cell |-> fc] @@
              MirrorForEdge(configs[lattices[i].cfg], k, d, fc)]
    /\ UNCHANGED <<configs, lattices>>
    /\ UNCHANGED <<partVars, views, scene>>

\* SquareLattice.place(ax, origin, cell_pattern=, first_cell=, shade_cells=)
Place(i) ==
    /\ lattices[i].state = "built"
    /\ \E origin \in Origins, pattern \in {"checkerboard", "none"},
          fc \in FirstCells, shade \in BOOLEAN :
          LET lat  == lattices[i]
              cfg  == configs[lat.cfg]
              sh   == IF shade /\ pattern = "checkerboard"
                      THEN DrawCellShading(cfg, origin, fc) ELSE <<>>
              cp   == PlaceCouplers(lat, cfg, origin, pattern, fc)
          IN  outcome' = [outcome EXCEPT ![i] =
                  [op |-> "place", origin |-> origin, cell_pattern |-> pattern,
                   first_cell |-> fc, shade_cells |-> shade,
                   err |-> cp.err,
                   drawn |-> sh \o PlaceDataQubits(lat, origin) \o cp.value]]
    /\ UNCHANGED <<configs, lattices>>
    /\ UNCHANGED <<partVars, views, scene>>

\* BlenderRenderer(lattice).render(): the two lattice loops.  The scene set-up
\* that follows them (substrate, scale, camera, lights) only talks to Blender.
Render(i) ==
    /\ lattices[i].state = "built"
    /\ LET lat == lattices[i]
           cp  == DrawCouplers(lat, configs[lat.cfg])
       IN  outcome' = [outcome EXCEPT ![i] =
               [op |-> "render", err |-> cp.err,
                drawn |-> DrawDataQubits(lat) \o cp.value]]
    /\ UNCHANGED <<configs, lattices>>
    /\ UNCHANGED <<partVars, views, scene>>

Next ==
    \/ \E i \in DOMAIN lattices : Construct(i)
    \/ \E i \in DOMAIN lattices : Mirror(i)
    \/ \E i \in DOMAIN lattices : Place(i)
    \/ \E i \in DOMAIN lattices : Render(i)

Spec == Init /\ [][Next]_vars

\* ------------------------------------------------- two lattices side by side
\* Two lattices built independently, each from its own configuration, and
\* asked for the mirror flag of the same edge with the same arguments.
PairSizes == {<<r, c>> : r \in 2..MaxRows, c \in 2..MaxCols}

InitPair ==
    \E a \in PairSizes, b \in PairSizes, t \in CouplerChoices :
        /\ configs = [i \in {1, 2} |->
              [rows    |-> IF i = 1 THEN a[1] ELSE b[1],
               cols    |-> IF i = 1 THEN a[2] ELSE b[2],
               pitch   |-> 0,
               pad_gap |-> 20]]
        /\ lattices = [i \in {1, 2} |-> NewLattice(i, DefaultFluxonium, t)]
        /\ outcome = [i \in {1, 2} |-> [op |-> "none", err |-> "none"]]
        /\ parts = <<>>
        /\ last = [op |-> "none"]
        /\ views = NoViews
        /\ scene = NoScene

MirrorBoth ==
    /\ \A i \in DOMAIN lattices : lattices[i].state = "built"
    /\ \E k \in QueryKeys, d \in Directions, fc \in FirstCells :
          outcome' = [i \in DOMAIN lattices |->
              [op |-> "mirror", edge_key |-> k, direction |-> d, first_cell |-> fc] @@
              MirrorForEdge(configs[lattices[i].cfg], k, d, fc)]
    /\ UNCHANGED <<configs, lattices>>
    /\ UNCHANGED <<partVars, views, scene>>

NextPair ==
    \/ \E i \in DOMAIN lattices : Construct(i)
    \/ MirrorBoth

SpecPair == InitPair /\ [][NextPair]_vars

\* ---------------------------------------------------------------- claims
Built(i) == lattices[i].state = "built"

Cfg(i) == configs[lattices[i].cfg]

\* The interior unit cell (r, c) of a rows x cols lattice.
CellExists(cfg, r, c) ==
    /\ 0 <= r /\ r < cfg.rows - 1
    /\ 0 <= c /\ c < cfg.cols - 1

\* C1: a lattice with rows >= 1 and cols >= 1 has exactly rows*cols sites,
\* one per (r, c) of the grid, and site (r, c) lies at (c*pitch, r*pitch).
C1_SiteGrid ==
    \A i \in DOMAIN lattices :
        (Built(i) /\ Cfg(i).rows >= 1 /\ Cfg(i).cols >= 1) =>
            LET sites == lattices[i]._site_positions
                p     == Cfg(i).pitch
            IN  /\ Cardinality(DOMAIN sites) = Cfg(i).rows * Cfg(i).cols
                /\ DOMAIN sites = (0..(Cfg(i).rows - 1)) \X (0..(Cfg(i).cols - 1))
                /\ \A s \in DOMAIN sites : sites[s] = <<s[2] * p, s[1] * p>>

C1_Witness ==
    \E i \in DOMAIN lattices :
        /\ Built(i) /\ Cfg(i).rows = 2 /\ Cfg(i).cols = 3 /\ Cfg(i).pitch > 0
        /\ lattices[i]._site_positions[<<1, 2>>] = <<2 * Cfg(i).pitch, Cfg(i).pitch>>

\* C2: the edges of a lattice with rows >= 1 and cols >= 1 are exactly the
\* pairs (r,c)-(r,c+1), tagged horizontal, and (r,c)-(r+1,c), tagged
\* vertical, of existing sites; there are rows*(cols-1) + (rows-1)*cols of
\* them, and each edge's xy is the midpoint of its two sites.
C2_EdgeSet ==
    \A i \in DOMAIN lattices :
        (Built(i) /\ Cfg(i).rows >= 1 /\ Cfg(i).cols >= 1) =>
            LET sites == lattices[i]._site_positions
                edges == lattices[i]._edge_positions
                S     == DOMAIN sites
            IN  /\ \A k \in DOMAIN edges :
                      /\ k[1] \in S /\ k[2] \in S
                      /\ \/ /\ edges[k].direction = "horizontal"
                            /\ k[2] = <<k[1][1], k[1][2] + 1>>
                         \/ /\ edges[k].direction = "vertical"
                            /\ k[2] = <<k[1][1] + 1, k[1][2]>>
                      /\ 2 * edges[k].xy[1] = sites[k[1]][1] + sites[k[2]][1]
                      /\ 2 * edges[k].xy[2] = sites[k[1]][2] + sites[k[2]][2]
                /\ \A a \in S, b \in S :
                      (b = <<a[1], a[2] + 1>> \/ b = <<a[1] + 1, a[2]>>)
                          => <<a, b>> \in DOMAIN edges
                /\ Cardinality(DOMAIN edges)
                      = Cfg(i).rows * (Cfg(i).cols - 1) + (Cfg(i).rows - 1) * Cfg(i).cols

C2_Witness ==
    \E i \in DOMAIN lattices :
        /\ Built(i) /\ Cfg(i).rows = 2 /\ Cfg(i).cols = 3
        /\ Cardinality(DOMAIN lattices[i]._edge_positions) = 7
        /\ lattices[i]._edge_positions[<<<<0, 2>>, <<1, 2>>>>].direction = "vertical"
        /\ lattices[i]._edge_positions[<<<<1, 1>>, <<1, 2>>>>].direction = "horizontal"

\* The last call on lattice i was _mirror_for_edge on one of the lattice's
\* own edges with the direction stored for it.
MirrorOnOwnEdge(i) ==
    /\ Built(i)
    /\ outcome[i].op = "mirror"
    /\ outcome[i].edge_key \in DOMAIN lattices[i]._edge_positions
    /\ outcome[i].direction
          = lattices[i]._edge_positions[outcome[i].edge_key].direction

IsRes(r, c, fc) == CellType(r, c, fc) = "resonator"

\* C3: for a horizontal edge, mirror is "the cell above is resonator-typed"
\* when that cell exists and the negation of "the cell below is
\* resonator-typed" when only the cell below exists; for a vertical edge,
\* mirror is the negation of "the cell to the right is resonator-typed" when
\* that cell exists and "the cell to the left is resonator-typed" when only
\* that one exists.  With both neighbour cells present the chosen side
\* (mirror: up / left, no mirror: down / right) is the resonator-typed cell.
C3_MirrorRule ==
    \A i \in DOMAIN lattices :
        MirrorOnOwnEdge(i) =>
            LET o  == outcome[i]
                r  == o.edge_key[1][1]
                c  == o.edge_key[1][2]
                fc == o.first_cell
                cfg == Cfg(i)
            IN  IF o.direction = "horizontal"
                THEN /\ CellExists(cfg, r, c) =>
                           (o.err = "none" /\ o.value = IsRes(r, c, fc))
                     /\ (~CellExists(cfg, r, c) /\ CellExists(cfg, r - 1, c)) =>
                           (o.err = "none" /\ o.value = ~IsRes(r - 1, c, fc))
                     /\ (CellExists(cfg, r, c) /\ CellExists(cfg, r - 1, c)) =>
                           IF o.value THEN IsRes(r, c, fc) ELSE IsRes(r - 1, c, fc)
                ELSE /\ CellExists(cfg, r, c) =>
                           (o.err = "none" /\ (o.value = FALSE) = IsRes(r, c, fc))
                     /\ (~CellExists(cfg, r, c) /\ CellExists(cfg, r, c - 1)) =>
                           (o.err = "none" /\ o.value = IsRes(r, c - 1, fc))
                     /\ (CellExists(cfg, r, c) /\ CellExists(cfg, r, c - 1)) =>
                           IF o.value THEN IsRes(r, c - 1, fc) ELSE IsRes(r, c, fc)

C3_Witness ==
    \E i \in DOMAIN lattices :
        /\ MirrorOnOwnEdge(i)
        /\ outcome[i].direction = "horizontal"
        /\ outcome[i].first_cell = "flux_line"
        /\ ~CellExists(Cfg(i), outcome[i].edge_key[1][1], outcome[i].edge_key[1][2])
        /\ CellExists(Cfg(i), outcome[i].edge_key[1][1] - 1, outcome[i].edge_key[1][2])
        /\ outcome[i].err = "none"
        /\ outcome[i].value = TRUE

\* The couplers drawn by the last place call of lattice i, by edge key.
DrawnCoupler(i, k) ==
    CHOOSE it \in {outcome[i].drawn[n] : n \in 1..Len(outcome[i].drawn)} :
        it.kind = "coupler" /\ it.edge = k

\* The global direction of the arm that should point into a cell of type ct.
ArmInto(it, ct) ==
    IF ct = "resonator"
    THEN (it.angle + it.res_arm) % 360
    ELSE (it.angle + it.squid_arm) % 360

\* C4: after place with the checkerboard pattern, the four couplers around
\* every interior cell point their resonator arm into the cell when it is
\* resonator-typed and their SQUID arm into it when it is flux_line-typed,
\* for every coupler record with distinct arm indices in {0, 1}.
C4_ArmsPointIntoCell ==
    \A i \in DOMAIN lattices :
        (Built(i) /\ outcome[i].op = "place"
            /\ outcome[i].cell_pattern = "checkerboard" /\ outcome[i].err = "none") =>
            \A r \in 0..(Cfg(i).rows - 2), c \in 0..(Cfg(i).cols - 2) :
                LET ct == CellType(r, c, outcome[i].first_cell)
                IN  /\ ArmInto(DrawnCoupler(i, <<<<r, c>>, <<r, c + 1>>>>), ct) = 90
                    /\ ArmInto(DrawnCoupler(i, <<<<r + 1, c>>, <<r + 1, c + 1>>>>), ct) = 270
                    /\ ArmInto(DrawnCoupler(i, <<<<r, c>>, <<r + 1, c>>>>), ct) = 0
                    /\ ArmInto(DrawnCoupler(i, <<<<r, c + 1>>, <<r + 1, c + 1>>>>), ct) = 180

\* C5: _mirror_for_edge returns a boolean for every edge of every lattice
\* with rows, cols >= 1, so place (checkerboard) and the 3D coupler loop
\* visit every edge without raising.
C5_EveryEdgeHasMirror ==
    \A i \in DOMAIN lattices :
        (Built(i) /\ Cfg(i).rows >= 1 /\ Cfg(i).cols >= 1) =>
            /\ MirrorOnOwnEdge(i) => outcome[i].err = "none"
            /\ (outcome[i].op = "place" /\ outcome[i].cell_pattern = "checkerboard")
                  => outcome[i].err = "none"
            /\ outcome[i].op = "render" => outcome[i].err = "none"

\* The largest cell index the cell-type claim is checked for.
CellIndices == 0..(MaxRows + MaxCols)

\* C6: _cell_type(r, c) is "resonator" or "flux_line", equals first_cell
\* exactly when r + c is even, and differs from the type of the cell to the
\* right and of the cell above; the shading drawn by place shows these types.
C6_CellTypeAlternates ==
    /\ \A fc \in FirstCells, r \in CellIndices, c \in CellIndices :
          /\ CellType(r, c, fc) \in {"resonator", "flux_line"}
          /\ (CellType(r, c, fc) = fc) = ((r + c) % 2 = 0)
          /\ CellType(r, c, fc) # CellType(r, c + 1, fc)
          /\ CellType(r, c, fc) # CellType(r + 1, c, fc)
    /\ \A i \in DOMAIN lattices :
          outcome[i].op = "place" =>
              \A n \in 1..Len(outcome[i].drawn) :
                  outcome[i].drawn[n].kind = "shade" =>
                      (outcome[i].drawn[n].type = outcome[i].first_cell)
                          = ((outcome[i].drawn[n].cell[1]
                               + outcome[i].drawn[n].cell[2]) % 2 = 0)

C6_Witness ==
    \E i \in DOMAIN lattices :
        /\ outcome[i].op = "place"
        /\ outcome[i].first_cell = "flux_line"
        /\ \E n \in 1..Len(outcome[i].drawn), m \in 1..Len(outcome[i].drawn) :
              /\ outcome[i].drawn[n].kind = "shade"
              /\ outcome[i].drawn[m].kind = "shade"
              /\ outcome[i].drawn[n].cell = <<0, 0>>
              /\ outcome[i].drawn[m].cell = <<0, 1>>
              /\ outcome[i].drawn[n].type = "flux_line"
              /\ outcome[i].drawn[m].type = "resonator"

\* C7: two independently built lattices with rows, cols >= 2 return the
\* same mirror flag for every edge key both of them have, whatever their
\* sizes, also when the edge is interior in one and on the boundary of the
\* other.
C7_MirrorIndependentOfSize ==
    \A i \in DOMAIN lattices, j \in DOMAIN lattices :
        (/\ Built(i) /\ Built(j)
         /\ outcome[i].op = "mirror" /\ outcome[j].op = "mirror"
         /\ outcome[i].edge_key = outcome[j].edge_key
         /\ outcome[i].direction = outcome[j].direction
         /\ outcome[i].first_cell = outcome[j].first_cell
         /\ outcome[i].edge_key \in DOMAIN lattices[i]._edge_positions
         /\ outcome[i].edge_key \in DOMAIN lattices[j]._edge_positions) =>
            /\ outcome[i].err = "none"
            /\ outcome[j].err = "none"
            /\ outcome[i].value = outcome[j].value

C7_Witness ==
    /\ DOMAIN lattices = {1, 2}
    /\ Built(1) /\ Built(2)
    /\ Cfg(1).rows = 2 /\ Cfg(2).rows = 3
    /\ outcome[1].op = "mirror" /\ outcome[2].op = "mirror"
    /\ outcome[1].edge_key = <<<<1, 0>>, <<1, 1>>>>
    /\ outcome[2].edge_key = <<<<1, 0>>, <<1, 1>>>>
    /\ outcome[1].direction = "horizontal"
    /\ outcome[1].err = "none" /\ outcome[2].err = "none"
    /\ outcome[1].value = outcome[2].value

\* The outer edge of the pad rectangle generated for arm a of an Xmon placed
\* at xy with the given rotation: the far side (x + w) of the pad patch,
\* turned by the patch's local angle and the placement angle.
PadPatch(xmon, a) == xmon._patches[3 + 2 * (a \div 90)]

PadOuterEdge(xmon, a, xy, angle) ==
    LET pad == PadPatch(xmon, a)
    IN  Add(Rot(<<pad[1] + pad[3], 0>>, pad[5] + angle), xy)

\* The clearance, along edge k, between the data qubit on the edge's first
\* (end = 1) or second (end = 2) site and the coupler pad facing it.
PadClearance(lat, k, end) ==
    LET info   == lat._edge_positions[k]
        along  == EdgeAngle(info.direction)
        toward == IF end = 1 THEN along ELSE along + 180
        qubit  == PadOuterEdge(lat._data_qubit._xmon, toward % 360,
                               lat._site_positions[k[end]], 0)
        coupl  == PadOuterEdge(lat._coupler._xmon, IF end = 1 THEN 180 ELSE 0,
                               info.xy, EdgeAngle(info.direction))
    IN  Dot(Sub(coupl, qubit), Unit(toward))

\* C8: constructed with pitch <= 0, a lattice gets the pitch
\* 2*(fx + tx + pad_gap) with fx, tx the pad reach of the data-qubit arm and
\* of the coupler's long arm, and along every edge the facing pads of data
\* qubit and coupler are then exactly pad_gap apart; a pitch > 0 is kept.
C8_AutoPitch ==
    \A i \in DOMAIN lattices :
        outcome[i].op = "construct" =>
            LET lat == lattices[i]
                cfg == Cfg(i)
                f   == lat.fluxonium_dims.xmon
                t   == lat.coupler_dims.xmon
                fx  == Fx(f.arm_width) \div 2 + Fx(f.arm_len)
                       + (2 * Fx(f.pad_head_size)) \div 3
                tx  == Fx(t.arm_width) \div 2 + Fx(t.long_arm_len)
                       + (2 * Fx(t.pad_head_size)) \div 3
            IN  IF outcome[i].pitch_arg <= 0
                THEN /\ cfg.pitch = 2 * (fx + tx + Fx(cfg.pad_gap))
                     /\ Built(i) =>
                           \A k \in DOMAIN lat._edge_positions, end \in {1, 2} :
                               PadClearance(lat, k, end) = Fx(cfg.pad_gap)
                ELSE cfg.pitch = outcome[i].pitch_arg

C8_Witness ==
    \E i \in DOMAIN lattices :
        /\ outcome[i].op = "construct"
        /\ outcome[i].pitch_arg <= 0
        /\ Built(i)
        /\ Cfg(i).pad_gap = 20
        /\ Cfg(i).pitch = Fx(714)
        /\ \E k \in DOMAIN lattices[i]._edge_positions :
              /\ lattices[i]._edge_positions[k].direction = "vertical"
              /\ PadClearance(lattices[i], k, 2) = Fx(20)

ChainPeriod(i) ==
    lattices[i].fluxonium_dims.chain.island_len + lattices[i].fluxonium_dims.chain.gap

\* C9: with rows < 1 or cols < 1 (and dimension records the prototype
\* components can be built from) the constructor completes and leaves both
\* maps empty; one row gives no vertical edge, one column no horizontal edge.
C9_EmptyLattice ==
    \A i \in DOMAIN lattices :
        /\ (outcome[i].op = "construct" /\ ChainPeriod(i) # 0
               /\ (Cfg(i).rows < 1 \/ Cfg(i).cols < 1)) =>
              /\ outcome[i].err = "none"
              /\ Built(i)
              /\ DOMAIN lattices[i]._site_positions = {}
              /\ DOMAIN lattices[i]._edge_positions = {}
        /\ (Built(i) /\ Cfg(i).rows = 1) =>
              \A k \in DOMAIN lattices[i]._edge_positions :
                  lattices[i]._edge_positions[k].direction # "vertical"
        /\ (Built(i) /\ Cfg(i).cols = 1) =>
              \A k \in DOMAIN lattices[i]._edge_positions :
                  lattices[i]._edge_positions[k].direction # "horizontal"

C9_Witness ==
    \E i \in DOMAIN lattices :
        /\ outcome[i].op = "construct"
        /\ Cfg(i).rows = 0 /\ Cfg(i).cols = 2
        /\ outcome[i].err = "none"
        /\ Built(i)
        /\ DOMAIN lattices[i]._site_positions = {}

\* A configuration the error taxonomy calls invalid: non-positive lattice
\* size, Xmon arm length, chain length or chain period.
InvalidConfiguration(i) ==
    \/ Cfg(i).rows < 1
    \/ Cfg(i).cols < 1
    \/ lattices[i].fluxonium_dims.xmon.arm_len <= 0
    \/ lattices[i].fluxonium_dims.chain.length <= 0
    \/ ChainPeriod(i) <= 0

MirrorOnForeignEdge(i) ==
    /\ Built(i)
    /\ outcome[i].op = "mirror"
    /\ ~MirrorOnOwnEdge(i)

LookupErrors == {"KeyError", "IndexError", "LookupError"}

\* C11: _mirror_for_edge called with an edge key that is not a key of
\* edge_positions, or with a direction that does not match the key, fails
\* with a lookup error and returns no mirror value.
C11_ForeignEdgeRaisesLookupError ==
    \A i \in DOMAIN lattices :
        MirrorOnForeignEdge(i) => outcome[i].err \in LookupErrors

\* Python's order of two edge keys ((r1, c1), (r2, c2)): tuple comparison,
\* component by component.
EdgeKeyLess(a, b) ==
    LET fa == <<a[1][1], a[1][2], a[2][1], a[2][2]>>
        fb == <<b[1][1], b[1][2], b[2][1], b[2][2]>>
    IN  \E n \in 1..4 :
            /\ fa[n] < fb[n]
            /\ \A m \in 1..(n - 1) : fa[m] = fb[m]

\* The stage of place an emitted shape belongs to.
KindRank(kind) ==
    CASE kind = "shade" -> 1
      [] kind = "data_qubit" -> 2
      [] kind = "coupler" -> 3

CountKind(d, kind) == Cardinality({a \in 1..Len(d) : d[a].kind = kind})

\* C12: in every run of SquareLattice.place the shading rectangles come
\* before the data qubits and the data qubits before the couplers; the site
\* (r, c) is the k-th data qubit placed, k = r*cols + c, and carries index k
\* (label D{k}); every coupler carries as index the number of edge keys
\* smaller than its own (labels C0, C1, ... in ascending key order) and is
\* emitted at that rank.  BlenderRenderer.render emits data qubits and
\* couplers under the same rule, so its prefixes D{k} / C{k} name the same
\* site / edge.
C12_PlacementOrder ==
    \A i \in DOMAIN lattices :
        (Built(i) /\ outcome[i].op \in {"place", "render"}) =>
            LET d      == outcome[i].drawn
                edges  == DOMAIN lattices[i]._edge_positions
                sites  == DOMAIN lattices[i]._site_positions
                nshade == CountKind(d, "shade")
                nsite  == CountKind(d, "data_qubit")
            IN  /\ \A a \in 1..Len(d), b \in 1..Len(d) :
                      a < b => KindRank(d[a].kind) <= KindRank(d[b].kind)
                /\ nsite = Cardinality(sites)
                /\ (outcome[i].op = "render") => nshade = 0
                /\ (outcome[i].err = "none") =>
                      CountKind(d, "coupler") = Cardinality(edges)
                /\ \A a \in 1..Len(d) :
                      /\ d[a].kind = "data_qubit" =>
                            /\ d[a].site \in sites
                            /\ d[a].idx = d[a].site[1] * Cfg(i).cols + d[a].site[2]
                            /\ a = nshade + d[a].idx + 1
                      /\ d[a].kind = "coupler" =>
                            /\ d[a].edge \in edges
                            /\ d[a].idx = Cardinality({e \in edges :
                                                         EdgeKeyLess(e, d[a].edge)})
                            /\ a = nshade + nsite + d[a].idx + 1

C12_Witness ==
    \E i \in DOMAIN lattices :
        /\ Built(i) /\ outcome[i].op = "place" /\ outcome[i].err = "none"
        /\ Cfg(i).rows = 2 /\ Cfg(i).cols = 3
        /\ Len(outcome[i].drawn) = 2 + 6 + 7
        /\ outcome[i].drawn[2].kind = "shade"
        /\ outcome[i].drawn[2 + 6].kind = "data_qubit"
        /\ outcome[i].drawn[2 + 6].site = <<1, 2>>
        /\ outcome[i].drawn[2 + 6].idx = 5
        /\ outcome[i].drawn[2 + 6 + 3].kind = "coupler"
        /\ outcome[i].drawn[2 + 6 + 3].idx = 2
        /\ outcome[i].drawn[2 + 6 + 3].edge = <<<<0, 1>>, <<0, 2>>>>

\* ------------------------------------------------ stand-alone components
\* matplotlib's Affine2D, as the matrix <<a, b, c, d>> and the offset t of
\* the map p -> <<a*p[1] + b*p[2], c*p[1] + d*p[2]>> + t.
Affine2D == [m |-> <<1, 0, 0, 1>>, t |-> <<0, 0>>]

TransformPoint(T, p) ==
    <<T.m[1] * p[1] + T.m[2] * p[2] + T.t[1],
      T.m[3] * p[1] + T.m[4] * p[2] + T.t[2]>>

\* A + B: the transform that applies A and then B.
Compose(A, B) ==
    [m |-> <<B.m[1] * A.m[1] + B.m[2] * A.m[3], B.m[1] * A.m[2] + B.m[2] * A.m[4],
             B.m[3] * A.m[1] + B.m[4] * A.m[3], B.m[3] * A.m[2] + B.m[4] * A.m[4]>>,
     t |-> TransformPoint(B, A.t)]

\* T.rotate_deg(deg), for a multiple of 90 degrees.
RotateDeg(T, deg) ==
    LET u == Unit(deg)
    IN  Compose(T, [m |-> <<u[1], -u[2], u[2], u[1]>>, t |-> <<0, 0>>])

\* T.translate(tx, ty)
Translate(T, tx, ty) ==
    Compose(T, [m |-> <<1, 0, 0, 1>>, t |-> <<tx, ty>>])

\* The base transform with the rotation applied after the translation.
PlaceBaseTranslateFirst(xy, angle) ==
    RotateDeg(Translate(Affine2D, xy[1], xy[2]), angle)

\* Affine2D().rotate_deg(angle).translate(xy[0], xy[1]) of Xmon.place and
\* JJChain.place (ax.transData, the change to display units, is left out).
PlaceBase(xy, angle) ==
    Translate(RotateDeg(Affine2D, angle), xy[1], xy[2])

\* _stamp_rect: the rectangle (xy, w, h) under rotate_deg(local_angle)
\* followed by the base transform, as its four corners.
StampRect(xy, w, h, local_angle, base_transform) ==
    LET final == Compose(RotateDeg(Affine2D, local_angle), base_transform)
    IN  <<TransformPoint(final, xy),
          TransformPoint(final, <<xy[1] + w, xy[2]>>),
          TransformPoint(final, <<xy[1] + w, xy[2] + h>>),
          TransformPoint(final, <<xy[1], xy[2] + h>>)>>

\* Xmon.place: one stamped rectangle per cached patch.
XmonPlace(xmon, xy, angle) ==
    [k \in 1..Len(xmon._patches) |->
        StampRect(<<xmon._patches[k][1], xmon._patches[k][2]>>,
                  xmon._patches[k][3], xmon._patches[k][4],
                  xmon._patches[k][5], PlaceBase(xy, angle))]

\* JJChain.place: the islands, then the bridges.
JJChainPlace(chain, xy, angle) ==
    [k \in 1..Len(chain._islands) |->
        StampRect(<<chain._islands[k][1], chain._islands[k][2]>>,
                  chain._islands[k][3], chain._islands[k][4], 0,
                  PlaceBase(xy, angle))]
    \o
    [k \in 1..Len(chain._bridges) |->
        StampRect(<<chain._bridges[k][1], chain._bridges[k][2]>>,
                  chain._bridges[k][3], chain._bridges[k][4], 0,
                  PlaceBase(xy, angle))]

\* components.BRIDGE_W_FRAC
BRIDGE_W_FRAC == 1

\* Xmon3D.__init__
Xmon3D(dims) == [dims |-> dims, _arm_lengths |-> XmonArmLengths(dims)]

\* Xmon3D.arm_tip
Xmon3DArmTip(xmon3d, angle_deg) ==
    LET arm_l == Fx(xmon3d._arm_lengths[angle_deg])
        pad_w == DivOneAndHalf(Fx(xmon3d.dims.pad_head_size))
        dist  == Half(Fx(xmon3d.dims.arm_width)) + arm_l + pad_w
        u     == Unit(angle_deg)
    IN  <<dist * u[1], dist * u[2]>>

\* JJChain3D.place, in the plane: the island cuboids (centre, half extents),
\* the Dolan bridges (centre, total_length, width) and the returned
\* total_len.  The division by unit raises when island_len + gap = 0.
JJChain3DPlace(d, location, angle_deg) ==
    LET unit == d.island_len + d.gap
    IN  IF unit = 0
        THEN Raise("ZeroDivisionError") @@ [islands |-> <<>>, bridges |-> <<>>]
        ELSE LET n_cells   == TruncDiv(d.length, unit)
                 total_len == Fx(n_cells * unit + d.island_len)
                 bridge_w  == Fx(d.width) * BRIDGE_W_FRAC
                 island(i) ==
                     [name   |-> i,
                      centre |-> Add(location,
                                     Rot(<<Fx(i * unit) + Half(Fx(d.island_len)), 0>>,
                                         angle_deg)),
                      half   |-> <<Half(Fx(d.island_len)), Half(Fx(d.width))>>,
                      rotation |-> angle_deg]
                 bridge(i) ==
                     [name   |-> i,
                      centre |-> Add(location,
                                     Rot(<<Fx(i * unit + d.island_len) + Half(Fx(d.gap)), 0>>,
                                         angle_deg)),
                      total_length |-> Fx(d.gap + 2 * d.overlap),
                      width        |-> bridge_w,
                      overlap_len  |-> Fx(d.overlap),
                      rotation     |-> angle_deg]
             IN  Ret(total_len) @@
                 [islands |-> [i \in 1..(n_cells + 1) |-> island(i - 1)],
                  bridges |-> [i \in 1..n_cells |-> bridge(i - 1)]]

\* TunableTransmonCoupler(dims) and Coupler3D(dims) as calls: the lookup of
\* an arm index in _SHORT_ARM_ANGLES raises KeyError for an index other
\* than 0 and 1.
NewCoupler(dims) ==
    IF /\ dims.squid_arm_index \in DOMAIN SHORT_ARM_ANGLES
       /\ dims.resonator_arm_index \in DOMAIN SHORT_ARM_ANGLES
    THEN Ret(TunableTransmonCoupler(dims))
    ELSE Raise("KeyError")

\* Coupler3D.place: the arm assignment (swapped by mirror), the placement of
\* the cross and the position and angles handed to the sub-components.
Coupler3DPlace(coupler, location, angle_deg, mirror) ==
    LET squid_angle == IF mirror THEN coupler._res_angle ELSE coupler._squid_angle
        res_angle   == IF mirror THEN coupler._squid_angle ELSE coupler._res_angle
        squid_local == Xmon3DArmTip(coupler._xmon, squid_angle)
    IN  [kind               |-> "coupler",
         xy                 |-> location,
         angle              |-> angle_deg,
         mirror             |-> mirror,
         squid_arm          |-> squid_angle,
         res_arm            |-> res_angle,
         squid_pos          |-> Add(location, Rot(squid_local, angle_deg)),
         squid_global_angle |-> angle_deg + squid_angle,
         res_global_angle   |-> angle_deg + res_angle + 180]

\* Coupler3D.__init__
Coupler3D(dims) ==
    IF /\ dims.squid_arm_index \in DOMAIN SHORT_ARM_ANGLES
       /\ dims.resonator_arm_index \in DOMAIN SHORT_ARM_ANGLES
    THEN Ret([dims         |-> dims,
              _xmon        |-> Xmon3D(dims.xmon),
              _squid_angle |-> SHORT_ARM_ANGLES[dims.squid_arm_index],
              _res_angle   |-> SHORT_ARM_ANGLES[dims.resonator_arm_index]])
    ELSE Raise("KeyError")

\* The Xmon dimension records a caller passes: XmonDims (one arm length)
\* and CouplerXmonDims (long arms at 0/180, short arms at 90/270).
XmonChoices ==
    {[arm_len |-> 140, arm_width |-> 30, pad_head_size |-> 60],
     [arm_len |-> 100, arm_width |-> 20, pad_head_size |-> 45],
     [arm_len |-> 0, arm_width |-> 20, pad_head_size |-> 45],
     [long_arm_len |-> 100, short_arm_len |-> 50,
      arm_width |-> 24, pad_head_size |-> 45],
     [long_arm_len |-> 80, short_arm_len |-> 40,
      arm_width |-> 20, pad_head_size |-> 30]}

\* The JJChainDims records a caller passes: the default, lengths that are
\* and are not multiples of the period, and records with a non-positive
\* length or period.
ChainChoices ==
    {[length |-> 200, width |-> 15, island_len |-> 20, gap |-> 15, overlap |-> 6],
     [length |-> 70, width |-> 12, island_len |-> 20, gap |-> 15, overlap |-> 4],
     [length |-> 34, width |-> 15, island_len |-> 20, gap |-> 15, overlap |-> 6],
     [length |-> 0, width |-> 15, island_len |-> 20, gap |-> 15, overlap |-> 6],
     [length |-> 90, width |-> 10, island_len |-> 40, gap |-> 5, overlap |-> 0],
     [length |-> -100, width |-> 10, island_len |-> 20, gap |-> 15, overlap |-> 6],
     [length |-> 200, width |-> 15, island_len |-> 20, gap |-> -20, overlap |-> 6],
     [length |-> 90, width |-> 15, island_len |-> 10, gap |-> -40, overlap |-> 6],
     [length |-> 50, width |-> 10, island_len |-> 20, gap |-> 0, overlap |-> 5]}

\* The TunableTransmonDims records a caller passes: every pair of arm
\* indices in 0..2 on the default cross.
CouplerDimsChoices ==
    {[xmon |-> [long_arm_len |-> 100, short_arm_len |-> 50,
                arm_width |-> 24, pad_head_size |-> 45],
      squid_arm_index |-> s, resonator_arm_index |-> r] :
        s \in 0..2, r \in 0..2}

PlaceAngles == {0, 90, 180, 270}

\* parts: the component objects a caller has constructed, one of each class;
\*        a constructor that raised leaves its error in place of the object.
\* last : the most recent call on one of them, with its arguments and what
\*        it returned or drew.
\* The constructor arguments of the model: every choice for one class
\* with the defaults of styles.py for the other two.
PartChoices ==
    LET x0 == [arm_len |-> 140, arm_width |-> 30, pad_head_size |-> 60]
        c0 == [length |-> 200, width |-> 15, island_len |-> 20, gap |-> 15,
               overlap |-> 6]
        t0 == [xmon |-> [long_arm_len |-> 100, short_arm_len |-> 50,
                         arm_width |-> 24, pad_head_size |-> 45],
               squid_arm_index |-> 0, resonator_arm_index |-> 1]
    IN  {<<x, c0, t0>> : x \in XmonChoices}
        \cup {<<x0, c, t0>> : c \in ChainChoices}
        \cup {<<x0, c0, t>> : t \in CouplerDimsChoices}

InitParts ==
    \E args \in PartChoices :
        /\ parts = [xmon      |-> Xmon(args[1]),
                    xmon3d    |-> Xmon3D(args[1]),
                    chain     |-> JJChain(args[2]),
                    chain3d   |-> [dims |-> args[2]],
                    coupler   |-> NewCoupler(args[3]),
                    coupler3d |-> Coupler3D(args[3])]
        /\ last = [op |-> "none"]
        /\ configs = <<>>
        /\ lattices = <<>>
        /\ outcome = <<>>
        /\ views = NoViews
        /\ scene = NoScene

\* Xmon.arm_tip(angle_deg)
XmonArmTipCall ==
    /\ \E a \in CARDINAL :
          last' = [op |-> "arm_tip", part |-> "xmon", angle_deg |-> a,
                   tip |-> ArmTip(parts.xmon, a)]
    /\ UNCHANGED parts
    /\ UNCHANGED <<latticeVars, views, scene>>

\* Xmon3D.arm_tip(angle_deg)
Xmon3DArmTipCall ==
    /\ \E a \in CARDINAL :
          last' = [op |-> "arm_tip", part |-> "xmon3d", angle_deg |-> a,
                   tip |-> Xmon3DArmTip(parts.xmon3d, a)]
    /\ UNCHANGED parts
    /\ UNCHANGED <<latticeVars, views, scene>>

\* Xmon.place(ax, xy, angle)
XmonPlaceCall ==
    /\ \E xy \in Origins, angle \in PlaceAngles :
          last' = [op |-> "place", part |-> "xmon", xy |-> xy, angle |-> angle,
                   shapes |-> XmonPlace(parts.xmon, xy, angle)]
    /\ UNCHANGED parts
    /\ UNCHANGED <<latticeVars, views, scene>>

\* JJChain.place(ax, xy, angle)
JJChainPlaceCall ==
    /\ parts.chain.err = "none"
    /\ \E xy \in Origins, angle \in PlaceAngles :
          last' = [op |-> "place", part |-> "chain", xy |-> xy, angle |-> angle,
                   shapes |-> JJChainPlace(parts.chain.value, xy, angle)]
    /\ UNCHANGED parts
    /\ UNCHANGED <<latticeVars, views, scene>>

\* JJChain3D.place(location, angle_deg)
JJChain3DPlaceCall ==
    /\ \E xy \in Origins, angle \in PlaceAngles :
          last' = [op |-> "place", part |-> "chain3d", xy |-> xy, angle |-> angle]
                  @@ JJChain3DPlace(parts.chain3d.dims, xy, angle)
    /\ UNCHANGED parts
    /\ UNCHANGED <<latticeVars, views, scene>>

\* TunableTransmonCoupler.place(ax, xy, angle, mirror)
CouplerPlaceCall ==
    /\ parts.coupler.err = "none"
    /\ \E xy \in Origins, angle \in PlaceAngles, mirror \in BOOLEAN :
          last' = [op |-> "place", part |-> "coupler",
                   xy |-> xy, angle |-> angle, mirror |-> mirror,
                   placed |-> CouplerPlace(parts.coupler.value, xy, angle, mirror)]
    /\ UNCHANGED parts
    /\ UNCHANGED <<latticeVars, views, scene>>

\* Coupler3D.place(location, angle_deg, mirror)
Coupler3DPlaceCall ==
    /\ parts.coupler3d.err = "none"
    /\ \E xy \in Origins, angle \in PlaceAngles, mirror \in BOOLEAN :
          last' = [op |-> "place", part |-> "coupler3d",
                   xy |-> xy, angle |-> angle, mirror |-> mirror,
                   placed |-> Coupler3DPlace(parts.coupler3d.value, xy, angle, mirror)]
    /\ UNCHANGED parts
    /\ UNCHANGED <<latticeVars, views, scene>>

NextParts ==
    \/ XmonArmTipCall
    \/ Xmon3DArmTipCall
    \/ XmonPlaceCall
    \/ JJChainPlaceCall
    \/ JJChain3DPlaceCall
    \/ CouplerPlaceCall
    \/ Coupler3DPlaceCall

SpecParts == InitParts /\ [][NextParts]_vars

\* ------------------------------------------- claims about the components
\* The last call was place on the given component.
Placed(part) == last.op = "place" /\ last.part = part

\* C13: for JJChainDims with length >= 0 and island_len + gap > 0, with
\* n = floor(length / (island_len + gap)), the 2D chain has n + 1 islands
\* and n bridges, island i starts at x = i*(island_len + gap),
\* total_length = n*(island_len + gap) + island_len, and JJChain3D.place
\* returns that same total_length.
C13_ChainCells ==
    LET d    == parts.chain3d.dims
        unit == d.island_len + d.gap
    IN  (d.length >= 0 /\ unit > 0) =>
            LET n == d.length \div unit
                c == parts.chain.value
            IN  /\ parts.chain.err = "none"
                /\ c.dims = d
                /\ Len(c._islands) = n + 1
                /\ Len(c._bridges) = n
                /\ \A i \in 0..n : c._islands[i + 1][1] = Fx(i * unit)
                /\ c.total_length = Fx(n * unit + d.island_len)
                /\ Placed("chain3d") =>
                      (last.err = "none" /\ last.value = c.total_length)

C13_Witness ==
    /\ parts.chain3d.dims.length = 200
    /\ parts.chain3d.dims.island_len = 20
    /\ parts.chain3d.dims.gap = 15
    /\ Len(parts.chain.value._islands) = 6
    /\ Len(parts.chain.value._bridges) = 5
    /\ parts.chain.value.total_length = Fx(195)
    /\ Placed("chain3d")
    /\ last.value = Fx(195)

\* C14: every bridge of a Josephson-junction chain is 0.85 times as wide as
\* the islands, among the cached bridges of the 2D JJChain and among the
\* Dolan bridges created by JJChain3D.place.
C14_BridgeWidth ==
    LET d == parts.chain3d.dims
    IN  /\ parts.chain.err = "none" =>
              \A k \in 1..Len(parts.chain.value._bridges) :
                  100 * parts.chain.value._bridges[k][4] = 85 * Fx(d.width)
        /\ (Placed("chain3d") /\ last.err = "none") =>
              \A k \in 1..Len(last.bridges) :
                  100 * last.bridges[k].width = 85 * Fx(d.width)

\* The length of arm a of a cross built from the dimension record dims.
ArmLength(dims, a) ==
    IF "long_arm_len" \in DOMAIN dims
    THEN IF a \in {0, 180} THEN dims.long_arm_len ELSE dims.short_arm_len
    ELSE dims.arm_len

\* C15: arm_tip(d) of an Xmon is the point at distance
\* arm_width/2 + (length of arm d) + pad_head_size/1.5 from the centre along
\* direction d, which is the middle of the outer edge of the pad rectangle
\* generated for that arm; Xmon3D.arm_tip returns the same point.
C15_ArmTip ==
    (last.op = "arm_tip") =>
        LET a    == last.angle_deg
            dims == parts.xmon.dims
            pad  == PadPatch(parts.xmon, a)
            u    == Unit(a)
        IN  /\ parts.xmon3d.dims = dims
            /\ LET dist6 == 3 * Fx(dims.arm_width) + 6 * Fx(ArmLength(dims, a))
                               + 4 * Fx(dims.pad_head_size)
               IN  /\ 6 * last.tip[1] = dist6 * u[1]
                   /\ 6 * last.tip[2] = dist6 * u[2]
            /\ pad[5] = a
            /\ last.tip = Rot(<<pad[1] + pad[3], 0>>, a)
            /\ 2 * pad[2] + pad[4] = 0
            /\ last.tip = ArmTip(parts.xmon, a)
            /\ last.tip = Xmon3DArmTip(parts.xmon3d, a)

C15_Witness ==
    /\ last.op = "arm_tip"
    /\ last.part = "xmon3d"
    /\ last.angle_deg = 0
    /\ parts.xmon.dims = [arm_len |-> 140, arm_width |-> 30, pad_head_size |-> 60]
    /\ last.tip = <<Fx(195), 0>>
    /\ ArmTip(parts.xmon, 0) = <<Fx(195), 0>>

\* The short arm configured by an arm index: 0 -> 90, 1 -> 270.
ConfiguredArm(index) == IF index = 0 THEN 90 ELSE 270

\* The assignment made by the last place call on a coupler: unmirrored it
\* is the configured one, mirrored the swapped one; the SQUID and the flux
\* line sit at the tip of the SQUID arm and the cross has the rotation and
\* the position of the call.
CouplerAssignment ==
    \A part \in {"coupler", "coupler3d"} :
        Placed(part) =>
            LET dims  == parts[part].value.dims
                squid == ConfiguredArm(dims.squid_arm_index)
                res   == ConfiguredArm(dims.resonator_arm_index)
                p     == last.placed
            IN  /\ parts[part].value._squid_angle = squid
                /\ parts[part].value._res_angle = res
                /\ p.squid_arm = (IF last.mirror THEN res ELSE squid)
                /\ p.res_arm = (IF last.mirror THEN squid ELSE res)
                /\ p.angle = last.angle
                /\ p.xy = last.xy
                /\ p.squid_global_angle = last.angle + p.squid_arm
                /\ p.res_global_angle = last.angle + p.res_arm + 180
                /\ p.squid_pos
                      = Add(Rot(ArmTip(Xmon(dims.xmon), p.squid_arm), last.angle), last.xy)

\* C16: in any sequence of place calls on one coupler, each call assigns
\* the arms by its own mirror argument alone (mirror=False: configured arms,
\* mirror=True: swapped arms, cross rotation the same), and no call changes
\* the stored assignment (_squid_angle, _res_angle) of the 2D or the 3D
\* coupler.
C16_PlaceKeepsAssignment ==
    /\ [](last.op = "place" => CouplerAssignment)
    /\ [][/\ parts'.coupler = parts.coupler
          /\ parts'.coupler3d = parts.coupler3d]_vars

\* A mirrored call on the default coupler: SQUID on the 270-degree arm.
C16_Witness ==
    /\ Placed("coupler")
    /\ last.mirror
    /\ parts.coupler.value._squid_angle = 90
    /\ parts.coupler.value._res_angle = 270
    /\ last.placed.squid_arm = 270
    /\ last.placed.res_arm = 90
    /\ last.angle = 90
    /\ last.placed.angle = 90

\* C17: every coupler that can be constructed from a TunableTransmonDims
\* stores, and for both mirror values places, the SQUID and the resonator
\* on two different short arms: one on the 90-degree arm, the other on the
\* 270-degree arm.
C17_DistinctShortArms ==
    \A part \in {"coupler", "coupler3d"} :
        parts[part].err = "none" =>
            /\ {parts[part].value._squid_angle, parts[part].value._res_angle}
                  = {90, 270}
            /\ Placed(part) =>
                  {last.placed.squid_arm, last.placed.res_arm} = {90, 270}

\* The four corners of the rectangle <<x, y, w, h>> turned by local_angle
\* about the local origin, then turned by angle and moved by xy.
PlacedCorners(rect, local_angle, xy, angle) ==
    LET corners == <<<<rect[1], rect[2]>>,
                     <<rect[1] + rect[3], rect[2]>>,
                     <<rect[1] + rect[3], rect[2] + rect[4]>>,
                     <<rect[1], rect[2] + rect[4]>>>>
    IN  [j \in 1..4 |-> Add(Rot(Rot(corners[j], local_angle), angle), xy)]

\* The shapes of the last place call are the cached local shapes of the
\* component, in order, rotated by the call's angle and then translated by
\* its origin.
PlacedShapes ==
    /\ Placed("xmon") =>
          LET ps == Xmon(parts.xmon.dims)._patches
          IN  /\ Len(last.shapes) = Len(ps)
              /\ \A k \in 1..Len(ps) :
                    last.shapes[k] = PlacedCorners(ps[k], ps[k][5], last.xy, last.angle)
    /\ Placed("chain") =>
          LET c  == JJChain(parts.chain.value.dims).value
              rs == c._islands \o c._bridges
          IN  /\ Len(last.shapes) = Len(rs)
              /\ \A k \in 1..Len(rs) :
                    last.shapes[k] = PlacedCorners(rs[k], 0, last.xy, last.angle)

\* C18: after any sequence of place calls on an Xmon or a JJChain, the
\* cached local geometry (_patches, _arm_lengths; _islands, _bridges,
\* total_length) and the dimension record are what the constructor left, and
\* every place call emits the cached local shapes rotated by its angle and
\* then translated by its origin, so that equal arguments give equal shapes.
C18_PlaceKeepsGeometry ==
    /\ [](PlacedShapes)
    /\ [][/\ parts'.xmon = parts.xmon
          /\ parts'.chain = parts.chain]_vars

C18_Witness ==
    /\ Placed("xmon")
    /\ last.angle = 90
    /\ last.xy = <<Fx(100), Fx(-50)>>
    /\ parts.xmon.dims = [arm_len |-> 140, arm_width |-> 30, pad_head_size |-> 60]
    /\ Len(last.shapes) = 9
    /\ last.shapes[1][1] = <<Fx(115), Fx(-65)>>
    /\ last.shapes[3][2] = <<Fx(130), Fx(145)>>

\* ------------------------------------------- the lattice and its callers
\* In this part of the model the entries of lattices[i]._site_positions and
\* _edge_positions are the objects the lattice holds: the position arrays
\* and the info records.  views is what one caller holds: for each of the
\* two mappings returned by site_positions and edge_positions, the keys of
\* the caller's copy and, per key, whether the entry is still the lattice's
\* own object ("shared") or an object of the caller ("own").
MaxCallerEdits == 1

AliasSizes == {<<1, 2>>, <<2, 2>>}

Margins == {Fx(350), Fx(200)}

DefaultCoupler == CHOOSE t \in CouplerChoices : t.squid_arm_index = 0

Min(S) == CHOOSE x \in S : \A y \in S : x <= y

InitAlias ==
    \E size \in AliasSizes :
        /\ configs = [i \in {1} |->
              [rows |-> size[1], cols |-> size[2], pitch |-> 0, pad_gap |-> 20]]
        /\ lattices = [i \in {1} |-> NewLattice(1, DefaultFluxonium, DefaultCoupler)]
        /\ outcome = [i \in {1} |-> [op |-> "none", err |-> "none"]]
        /\ parts = <<>>
        /\ last = [op |-> "none"]
        /\ views = NoViews
        /\ scene = NoScene

\* SquareLattice.site_positions: dict(self._site_positions), a new mapping
\* whose values are the lattice's own arrays.
SitePositions(i) ==
    /\ lattices[i].state = "built"
    /\ outcome' = [outcome EXCEPT ![i] =
          [op |-> "site_positions", err |-> "none",
           sites |-> lattices[i]._site_positions]]
    /\ views' = [views EXCEPT !.site =
          [k \in DOMAIN lattices[i]._site_positions |-> "shared"]]
    /\ UNCHANGED <<configs, lattices, partVars, scene>>

\* SquareLattice.edge_positions: dict(self._edge_positions), a new mapping
\* whose values are the lattice's own info records.
EdgePositions(i) ==
    /\ lattices[i].state = "built"
    /\ outcome' = [outcome EXCEPT ![i] =
          [op |-> "edge_positions", err |-> "none",
           edges |-> lattices[i]._edge_positions]]
    /\ views' = [views EXCEPT !.edge =
          [k \in DOMAIN lattices[i]._edge_positions |-> "shared"]]
    /\ UNCHANGED <<configs, lattices, partVars, scene>>

\* SquareLattice.num_data_qubits
NumDataQubits(i) ==
    /\ lattices[i].state = "built"
    /\ outcome' = [outcome EXCEPT ![i] =
          [op |-> "num_data_qubits", err |-> "none",
           count |-> configs[lattices[i].cfg].rows * configs[lattices[i].cfg].cols]]
    /\ UNCHANGED <<configs, lattices, partVars, views, scene>>

\* SquareLattice.num_couplers
NumCouplers(i) ==
    /\ lattices[i].state = "built"
    /\ outcome' = [outcome EXCEPT ![i] =
          [op |-> "num_couplers", err |-> "none",
           count |-> Cardinality(DOMAIN lattices[i]._edge_positions)]]
    /\ UNCHANGED <<configs, lattices, partVars, views, scene>>

\* SquareLattice.auto_lims(margin); min and max of no site raise ValueError.
AutoLims(i) ==
    /\ lattices[i].state = "built"
    /\ \E margin \in Margins :
          LET sites == lattices[i]._site_positions
              xs == {sites[k][1] : k \in DOMAIN sites}
              ys == {sites[k][2] : k \in DOMAIN sites}
          IN  outcome' = [outcome EXCEPT ![i] =
                  [op |-> "auto_lims", margin |-> margin] @@
                  (IF DOMAIN sites = {}
                   THEN Raise("ValueError")
                   ELSE [err  |-> "none",
                         lims |-> <<<<Min(xs) - margin, Max(xs) + margin>>,
                                    <<Min(ys) - margin, Max(ys) + margin>>>>])]
    /\ UNCHANGED <<configs, lattices, partVars, views, scene>>

\* The caller inserts an entry of its own into a mapping it holds.
ViewInsert ==
    /\ views.edits < MaxCallerEdits
    /\ \E which \in {"site", "edge"} :
          LET key == IF which = "site" THEN <<9, 9>> ELSE <<<<9, 9>>, <<9, 10>>>>
          IN  /\ DOMAIN views[which] # {}
              /\ key \notin DOMAIN views[which]
              /\ views' = [views EXCEPT
                     ![which] = [k \in DOMAIN @ \cup {key} |->
                                    IF k = key THEN "own" ELSE @[k]],
                     !.edits = @ + 1]
    /\ UNCHANGED <<latticeVars, partVars, scene>>

\* The caller deletes an entry of a mapping it holds.
ViewDelete ==
    /\ views.edits < MaxCallerEdits
    /\ \E which \in {"site", "edge"} :
          \E key \in DOMAIN views[which] :
              views' = [views EXCEPT
                  ![which] = [k \in DOMAIN @ \ {key} |-> @[k]],
                  !.edits = @ + 1]
    /\ UNCHANGED <<latticeVars, partVars, scene>>

\* The caller replaces an entry of a mapping it holds by a new object.
ViewReplace ==
    /\ views.edits < MaxCallerEdits
    /\ \E which \in {"site", "edge"} :
          \E key \in DOMAIN views[which] :
              views' = [views EXCEPT ![which][key] = "own", !.edits = @ + 1]
    /\ UNCHANGED <<latticeVars, partVars, scene>>

\* The caller writes into a position array it reached through the mapping
\* returned by site_positions: positions[key][0] = 999.
EditPosition(i) ==
    /\ views.edits < MaxCallerEdits
    /\ \E key \in DOMAIN views.site :
          /\ IF views.site[key] = "shared"
             THEN lattices' = [lattices EXCEPT
                      ![i]._site_positions[key] = <<Fx(999), @[2]>>]
             ELSE UNCHANGED lattices
          /\ views' = [views EXCEPT !.edits = @ + 1]
    /\ UNCHANGED <<configs, outcome, partVars, scene>>

\* The caller writes into an info record it reached through the mapping
\* returned by edge_positions: info["direction"] = ... or info["xy"][0] = 999.
EditInfo(i) ==
    /\ views.edits < MaxCallerEdits
    /\ \E key \in DOMAIN views.edge, field \in {"xy", "direction"} :
          /\ IF views.edge[key] = "shared"
             THEN IF field = "xy"
                  THEN lattices' = [lattices EXCEPT
                           ![i]._edge_positions[key].xy = <<Fx(999), @[2]>>]
                  ELSE lattices' = [lattices EXCEPT
                           ![i]._edge_positions[key].direction =
                               IF @ = "horizontal" THEN "vertical" ELSE "horizontal"]
             ELSE UNCHANGED lattices
          /\ views' = [views EXCEPT !.edits = @ + 1]
    /\ UNCHANGED <<configs, outcome, partVars, scene>>

NextAlias ==
    \/ \E i \in DOMAIN lattices : Construct(i)
    \/ \E i \in DOMAIN lattices : SitePositions(i)
    \/ \E i \in DOMAIN lattices : EdgePositions(i)
    \/ \E i \in DOMAIN lattices : NumDataQubits(i)
    \/ \E i \in DOMAIN lattices : NumCouplers(i)
    \/ \E i \in DOMAIN lattices : AutoLims(i)
    \/ \E i \in DOMAIN lattices : Mirror(i)
    \/ \E i \in DOMAIN lattices : Place(i)
    \/ ViewInsert
    \/ ViewDelete
    \/ ViewReplace
    \/ \E i \in DOMAIN lattices : EditPosition(i)
    \/ \E i \in DOMAIN lattices : EditInfo(i)

SpecAlias == InitAlias /\ [][NextAlias]_vars

\* The site and edge maps a lattice was built with.
BuiltSites(i) == BuildSites(Cfg(i).rows, Cfg(i).cols, Cfg(i).pitch)

BuiltEdges(i) == BuildEdges(Cfg(i).rows, Cfg(i).cols, BuiltSites(i))

\* C19: once a lattice is built its site and edge maps keep the values of
\* construction, whatever operations are called on it and whatever a caller
\* does with the mappings returned by site_positions and edge_positions, and
\* these two properties keep returning those values.
C19_MapsReadOnly ==
    \A i \in DOMAIN lattices :
        Built(i) =>
            /\ lattices[i]._site_positions = BuiltSites(i)
            /\ lattices[i]._edge_positions = BuiltEdges(i)
            /\ (outcome[i].op = "site_positions") =>
                  (outcome[i].sites = BuiltSites(i))
            /\ (outcome[i].op = "edge_positions") =>
                  (outcome[i].edges = BuiltEdges(i))


\* ---------------------------------------------------------------------
\* Thin-film bridges (visualization_3d/primitives.py).  Lengths are in
\* 1/120 units.  create_dolan_bridge and create_half_bridge make a mesh
\* object: one slice of four vertices per sample of xs, four quads per
\* pair of neighbouring slices, and one quad at each end.
\* ---------------------------------------------------------------------
MaxResX == 4

\* math.exp raises OverflowError above ln(DBL_MAX) = 709.78..., which is
\* 85173.9... in 1/120 units.
ExpArgLimit == 85173

\* np.linspace(start, stop, num): num evenly spaced samples with both ends
\* included; a single sample is start.
Linspace(start, stop, num) ==
    [k \in 1..num |->
        IF num = 1 THEN start
        ELSE start + ((k - 1) * (stop - start)) \div (num - 1)]

\* The arguments math.exp receives in sigmoid_z(x).
DolanExpArgs(a, x) ==
    LET left_step  == (0 - a.total_length) \div 2 + a.overlap_len
        right_step == a.total_length \div 2 - a.overlap_len
    IN  {a.steepness * (x - left_step), (0 - a.steepness) * (x - right_step)}

HalfExpArgs(a, x) ==
    LET step_x == a.total_length \div 2 - a.overlap_len
    IN  {(0 - a.steepness) * (x - step_x)}

\* math.exp on whole arguments 0..21, rounded down; e^k is not whole for
\* k >= 1, so it lies strictly between ExpFloor[k + 1] and ExpFloor[k + 1] + 1.
ExpFloor ==
    << 1, 2, 7, 20, 54, 148, 403, 1096, 2980, 8103, 22026, 59874, 162754,
       442413, 1202604, 3269017, 8886110, 24154952, 65659969, 178482300,
       485165195, 1318815734 >>

MaxExpArg == Len(ExpFloor) - 1

\* Sigmoid values are kept in millionths.
SigmoidScale == 1000000

\* Bounds of 1 / (1 + math.exp(t)) in millionths, t in 1/120 units.  exp is
\* increasing, so for t >= 0 it lies between exp of t rounded down and up
\* to whole numbers; beyond the table the lower bound is 0.  For t < 0 the
\* value is 1 minus the value at -t.
RECURSIVE LogisticLo(_), LogisticHi(_)
LogisticLo(t) ==
    IF t < 0 THEN SigmoidScale - LogisticHi(0 - t)
    ELSE LET up == (t + 119) \div 120
         IN  IF up > MaxExpArg THEN 0
             ELSE SigmoidScale \div
                     (1 + ExpFloor[up + 1] + (IF up = 0 THEN 0 ELSE 1))

LogisticHi(t) ==
    IF t < 0 THEN SigmoidScale - LogisticLo(0 - t)
    ELSE LET down == IF t \div 120 > MaxExpArg THEN MaxExpArg ELSE t \div 120
             den  == 1 + ExpFloor[down + 1]
         IN  (SigmoidScale + den - 1) \div den

\* The mutant of DolanZLo: s_left alone, no ramp at the +X end.
DolanZLoLeftOnly(a, x) ==
    LET left_step == (0 - a.total_length) \div 2 + a.overlap_len
    IN  (a.h_step * LogisticLo(a.steepness * (x - left_step)))
            \div SigmoidScale

\* sigmoid_z of create_dolan_bridge, h_step * (s_left + s_right), between
\* its bounds in 1/120 units (h_step >= 0).
DolanZLo(a, x) ==
    LET left_step  == (0 - a.total_length) \div 2 + a.overlap_len
        right_step == a.total_length \div 2 - a.overlap_len
    IN  (a.h_step * (LogisticLo(a.steepness * (x - left_step))
                     + LogisticLo((0 - a.steepness) * (x - right_step))))
            \div SigmoidScale

DolanZHi(a, x) ==
    LET left_step  == (0 - a.total_length) \div 2 + a.overlap_len
        right_step == a.total_length \div 2 - a.overlap_len
    IN  (a.h_step * (LogisticHi(a.steepness * (x - left_step))
                     + LogisticHi((0 - a.steepness) * (x - right_step)))
         + SigmoidScale - 1) \div SigmoidScale

\* sigmoid_z of create_half_bridge, h_step * s.
HalfZLo(a, x) ==
    LET step_x == a.total_length \div 2 - a.overlap_len
    IN  (a.h_step * LogisticLo((0 - a.steepness) * (x - step_x)))
            \div SigmoidScale

HalfZHi(a, x) ==
    LET step_x == a.total_length \div 2 - a.overlap_len
    IN  (a.h_step * LogisticHi((0 - a.steepness) * (x - step_x))
         + SigmoidScale - 1) \div SigmoidScale

\* exp has no exact integer model: the bottom height of the slice at x is
\* either end of the interval sigmoid_z(x) lies in.
DolanLevels(a, x) == {DolanZLo(a, x), DolanZHi(a, x)}

HalfLevels(a, x) == {HalfZLo(a, x), HalfZHi(a, x)}

\* The bottom heights of all slices: one level per sample of xs.
Profiles(xs, levels) ==
    {zb \in [DOMAIN xs -> UNION {levels[k] : k \in DOMAIN xs}] :
        \A k \in DOMAIN xs : zb[k] \in levels[k]}

\* bm.verts.new, four per x: v_bl, v_br, v_tl, v_tr.
BridgeVerts(xs, hy, zb, thickness) ==
    [j \in 1..(4 * Len(xs)) |->
        LET i == (j - 1) \div 4 + 1
            k == (j - 1) % 4
        IN  << xs[i],
               IF k \in {0, 2} THEN 0 - hy ELSE hy,
               IF k < 2 THEN zb[i] ELSE zb[i] + thickness >>]

\* The mutant of BridgeFaces: the top quad wound like the bottom quad.
BridgeFacesTopLikeBottom(n) ==
    [j \in 1..(4 * (n - 1) + 2) |->
        IF j <= 4 * (n - 1)
        THEN LET i   == (j - 1) \div 4
                 k   == (j - 1) % 4
                 bl0 == 4 * i + 1
                 br0 == 4 * i + 2
                 tl0 == 4 * i + 3
                 tr0 == 4 * i + 4
                 bl1 == 4 * i + 5
                 br1 == 4 * i + 6
                 tl1 == 4 * i + 7
                 tr1 == 4 * i + 8
             IN  CASE k = 0 -> <<bl0, br0, br1, bl1>>
                   [] k = 1 -> <<tl0, tr0, tr1, tl1>>
                   [] k = 2 -> <<bl0, bl1, tl1, tl0>>
                   [] k = 3 -> <<br0, tr0, tr1, br1>>
        ELSE IF j = 4 * (n - 1) + 1
        THEN <<1, 3, 4, 2>>
        ELSE LET bl_n == 4 * (n - 1) + 1
             IN  <<bl_n, bl_n + 1, bl_n + 3, bl_n + 2>>]

\* bm.faces.new in source order: for each i in range(n - 1) the bottom,
\* top, left-wall and right-wall quads, then the two end caps.  Vertices
\* are numbered in creation order from 1.
BridgeFaces(n) ==
    [j \in 1..(4 * (n - 1) + 2) |->
        IF j <= 4 * (n - 1)
        THEN LET i   == (j - 1) \div 4
                 k   == (j - 1) % 4
                 bl0 == 4 * i + 1
                 br0 == 4 * i + 2
                 tl0 == 4 * i + 3
                 tr0 == 4 * i + 4
                 bl1 == 4 * i + 5
                 br1 == 4 * i + 6
                 tl1 == 4 * i + 7
                 tr1 == 4 * i + 8
             IN  CASE k = 0 -> <<bl0, br0, br1, bl1>>
                   [] k = 1 -> <<tl0, tl1, tr1, tr0>>
                   [] k = 2 -> <<bl0, bl1, tl1, tl0>>
                   [] k = 3 -> <<br0, tr0, tr1, br1>>
        ELSE IF j = 4 * (n - 1) + 1
        THEN <<1, 3, 4, 2>>
        ELSE LET bl_n == 4 * (n - 1) + 1
             IN  <<bl_n, bl_n + 1, bl_n + 3, bl_n + 2>>]

NoMesh == [verts |-> <<>>, faces |-> <<>>]

\* The body shared by both functions, given the exp arguments and the
\* bottom height of every slice.  No sample: bot_rows[0] is an IndexError.
\* One sample: both end caps use the same four vertices and bmesh refuses
\* the second face.
BridgeObject(a, xs, expArgs, zb) ==
    IF \E k \in 1..Len(xs) : \E t \in expArgs[k] : t > ExpArgLimit
    THEN [err |-> "OverflowError", mesh |-> NoMesh]
    ELSE IF Len(xs) = 0
    THEN [err |-> "IndexError", mesh |-> NoMesh]
    ELSE IF Len(xs) = 1
    THEN [err |-> "ValueError", mesh |-> NoMesh]
    ELSE [err |-> "none",
          mesh |-> [verts |-> BridgeVerts(xs, a.width \div 2, zb, a.thickness),
                    faces |-> BridgeFaces(Len(xs))],
          location |-> a.location,
          rotation_euler |-> a.rotation_euler,
          materials |-> IF a.material = "None" THEN <<>> ELSE <<a.material>>]

BridgeXs(a) ==
    Linspace((0 - a.total_length) \div 2, a.total_length \div 2, a.res_x)

BaseBridge ==
    [total_length |-> Fx(27), width |-> Fx(15), h_step |-> Fx(3) - 6,
     thickness |-> Fx(3), overlap_len |-> Fx(6), steepness |-> 2,
     material |-> "aluminum2", location |-> <<0, 0, 0>>,
     rotation_euler |-> <<0, 0, 0>>, res_x |-> 2]

\* The calls: the JJ-chain bridge at every resolution, and at resolutions
\* 2 and 3 one argument changed at a time.
BridgeCalls ==
    {[BaseBridge EXCEPT !.res_x = n] : n \in 0..MaxResX}
    \cup UNION {
        {[BaseBridge EXCEPT !.res_x = n, !.width = Fx(2)],
         [BaseBridge EXCEPT !.res_x = n, !.thickness = Fx(1)],
         [BaseBridge EXCEPT !.res_x = n, !.material = "None"],
         [BaseBridge EXCEPT !.res_x = n, !.rotation_euler = <<0, 0, 180>>,
                            !.location = <<Fx(10), 0, Fx(3)>>],
         [BaseBridge EXCEPT !.res_x = n, !.total_length = Fx(20),
                            !.h_step = Fx(3), !.overlap_len = Fx(3) \div 2],
         [BaseBridge EXCEPT !.res_x = n, !.total_length = Fx(60),
                            !.steepness = 15]}
        : n \in {1, 2, 3}}

InitMesh ==
    /\ configs = <<>>
    /\ lattices = <<>>
    /\ outcome = <<>>
    /\ parts = <<>>
    /\ last = [op |-> "none"]
    /\ views = NoViews
    /\ scene = NoScene

CreateDolanBridge ==
    \E a \in BridgeCalls :
        LET xs == BridgeXs(a)
        IN  \E zb \in Profiles(xs, [k \in 1..a.res_x |-> DolanLevels(a, xs[k])]) :
                /\ last' = [op |-> "create_dolan_bridge", args |-> a] @@
                       BridgeObject(a, xs,
                           [k \in 1..a.res_x |-> DolanExpArgs(a, xs[k])], zb)
                /\ UNCHANGED <<latticeVars, parts, views, scene>>

CreateHalfBridge ==
    \E a \in BridgeCalls :
        LET xs == BridgeXs(a)
        IN  \E zb \in Profiles(xs, [k \in 1..a.res_x |-> HalfLevels(a, xs[k])]) :
                /\ last' = [op |-> "create_half_bridge", args |-> a] @@
                       BridgeObject(a, xs,
                           [k \in 1..a.res_x |-> HalfExpArgs(a, xs[k])], zb)
                /\ UNCHANGED <<latticeVars, parts, views, scene>>

NextMesh ==
    \/ CreateDolanBridge
    \/ CreateHalfBridge

SpecMesh == InitMesh /\ [][NextMesh]_vars

\* ---------------------------------------------------------------------
\* C20.  A bridge mesh built with res_x >= 2.
\* ---------------------------------------------------------------------
BridgeBuilt ==
    /\ last.op \in {"create_dolan_bridge", "create_half_bridge"}
    /\ last.args.res_x >= 2
    /\ last.err = "none"

\* The directed edges of face f: each vertex to the next, the last to the
\* first.
FaceEdges(f) == {<<f[k], f[(k % 4) + 1]>> : k \in 1..4}

\* How many faces of the mesh traverse the directed edge e.
Traversals(mesh, e) ==
    Cardinality({j \in DOMAIN mesh.faces : e \in FaceEdges(mesh.faces[j])})

Cross(u, v) ==
    << u[2] * v[3] - u[3] * v[2],
       u[3] * v[1] - u[1] * v[3],
       u[1] * v[2] - u[2] * v[1] >>

\* The winding normal of face f (right-hand rule on its first two edges).
FaceNormal(mesh, f) ==
    LET p == [k \in 1..4 |-> mesh.verts[f[k]]]
    IN  Cross(<<p[2][1] - p[1][1], p[2][2] - p[1][2], p[2][3] - p[1][3]>>,
              <<p[3][1] - p[2][1], p[3][2] - p[2][2], p[3][3] - p[2][3]>>)

\* The side of the strip a face lies on, read from its coordinates: an end
\* cap has one x, a wall has one y, a bottom face has the mesh above every
\* one of its vertices and a top face has it below.
FaceSide(mesh, f) ==
    LET p  == [k \in 1..4 |-> mesh.verts[f[k]]]
        hy == last.args.width \div 2
        x0 == (0 - last.args.total_length) \div 2
        x1 == last.args.total_length \div 2
    IN  IF \A k \in 1..4 : p[k][1] = x0 THEN "-X"
        ELSE IF \A k \in 1..4 : p[k][1] = x1 THEN "+X"
        ELSE IF \A k \in 1..4 : p[k][2] = 0 - hy THEN "-Y"
        ELSE IF \A k \in 1..4 : p[k][2] = hy THEN "+Y"
        ELSE IF \A k \in 1..4 : \E j \in DOMAIN mesh.verts :
                    /\ mesh.verts[j][1] = p[k][1]
                    /\ mesh.verts[j][2] = p[k][2]
                    /\ mesh.verts[j][3] > p[k][3]
        THEN "-Z"
        ELSE IF \A k \in 1..4 : \E j \in DOMAIN mesh.verts :
                    /\ mesh.verts[j][1] = p[k][1]
                    /\ mesh.verts[j][2] = p[k][2]
                    /\ mesh.verts[j][3] < p[k][3]
        THEN "+Z"
        ELSE "none"

FacesOutward(mesh, f) ==
    LET nrm  == FaceNormal(mesh, f)
        side == FaceSide(mesh, f)
    IN  CASE side = "-X" -> nrm[1] < 0 /\ nrm[2] = 0 /\ nrm[3] = 0
          [] side = "+X" -> nrm[1] > 0 /\ nrm[2] = 0 /\ nrm[3] = 0
          [] side = "-Y" -> nrm[2] < 0 /\ nrm[1] = 0 /\ nrm[3] = 0
          [] side = "+Y" -> nrm[2] > 0 /\ nrm[1] = 0 /\ nrm[3] = 0
          [] side = "-Z" -> nrm[3] < 0
          [] side = "+Z" -> nrm[3] > 0
          [] OTHER -> FALSE

\* C20: for every res_x >= 2 the mesh built by create_dolan_bridge and by
\* create_half_bridge (positive length, width and thickness) has 4*res_x
\* vertices and 4*(res_x - 1) + 2 quad faces; every edge of a face is
\* traversed once in that direction and once in the opposite direction, so
\* it lies in exactly two faces that run along it in opposite senses; and
\* every face is wound outward: bottom faces down, top faces up, the
\* y = -width/2 wall toward -Y, the y = +width/2 wall toward +Y, the end
\* caps toward -X and +X.
C20_BridgeMeshClosedOutward ==
    BridgeBuilt =>
        LET mesh == last.mesh
            n    == last.args.res_x
        IN  /\ Len(mesh.verts) = 4 * n
            /\ Len(mesh.faces) = 4 * (n - 1) + 2
            /\ \A j \in DOMAIN mesh.faces :
                   LET f == mesh.faces[j]
                   IN  /\ Len(f) = 4
                       /\ \A k \in 1..4 : f[k] \in DOMAIN mesh.verts
                       /\ Cardinality({f[k] : k \in 1..4}) = 4
                       /\ \A e \in FaceEdges(f) :
                              /\ Traversals(mesh, e) = 1
                              /\ Traversals(mesh, <<e[2], e[1]>>) = 1
                       /\ FacesOutward(mesh, f)

\* A Dolan bridge of MaxResX slices whose bottom is not flat.
C20_Witness ==
    /\ BridgeBuilt
    /\ last.op = "create_dolan_bridge"
    /\ last.args.res_x = MaxResX
    /\ last.mesh.verts[1][3] # last.mesh.verts[5][3]
    /\ Len(last.mesh.faces) = 4 * (MaxResX - 1) + 2


\* ---------------------------------------------------------------------
\* C21.  The bottom profile of a Dolan bridge.
\* ---------------------------------------------------------------------
DolanBuilt == last.op = "create_dolan_bridge" /\ last.err = "none"

\* exp(-t) rounded up, as a fraction 1 / ExpDown(t) (t >= 0 in 1/120 units).
ExpDown(t) ==
    ExpFloor[(IF t \div 120 > MaxExpArg THEN MaxExpArg ELSE t \div 120) + 1]

\* h_step * exp(-steepness * overlap_len), plus one unit of rounding.
EndTolerance(a) ==
    LET d == ExpDown(a.steepness * a.overlap_len)
    IN  (a.h_step + d - 1) \div d + 1

\* 2 * h_step * exp(-steepness * (total_length/2 - overlap_len)), plus one
\* unit of rounding.
MidTolerance(a) ==
    LET d == ExpDown(a.steepness * (a.total_length \div 2 - a.overlap_len))
    IN  (2 * a.h_step + d - 1) \div d + 1

\* The spec's example: h_step = 3, steepness = 2, overlap = 1.5,
\* total_length = 20, sampled at -10, 0 and 10.
ExampleBridge(a) ==
    /\ a.h_step = Fx(3)
    /\ a.steepness = 2
    /\ a.overlap_len = Fx(3) \div 2
    /\ a.total_length = Fx(20)
    /\ a.res_x = 3

\* C21: in a Dolan bridge the bottom height is h_step at both ends within
\* h_step * exp(-steepness * overlap_len) and, where 0 is sampled, 0 within
\* 2 * h_step * exp(-steepness * (total_length/2 - overlap_len)); samples
\* are mirrored about 0 and sigmoid_z has the same bounds at x and at -x;
\* the top vertices of every slice are exactly thickness above its bottom
\* vertices; and for h_step = 3, steepness = 2, overlap = 1.5,
\* total_length = 20 the heights at -10 and 10 are within 0.2 of 3 and the
\* height at 0 is within 0.01 of 0.
C21_DolanProfile ==
    DolanBuilt =>
        LET a  == last.args
            n  == a.res_x
            xs == BridgeXs(a)
            v  == last.mesh.verts
            zb == [k \in 1..n |-> v[4 * (k - 1) + 1][3]]
        IN  /\ Abs(zb[1] - a.h_step) <= EndTolerance(a)
            /\ Abs(zb[n] - a.h_step) <= EndTolerance(a)
            /\ \A k \in 1..n :
                   /\ xs[k] = 0 => Abs(zb[k]) <= MidTolerance(a)
                   /\ xs[n + 1 - k] = 0 - xs[k]
                   /\ DolanZLo(a, 0 - xs[k]) = DolanZLo(a, xs[k])
                   /\ DolanZHi(a, 0 - xs[k]) = DolanZHi(a, xs[k])
                   /\ zb[k] >= DolanZLo(a, xs[k])
                   /\ zb[k] <= DolanZHi(a, xs[k])
                   /\ v[4 * (k - 1) + 2][3] = zb[k]
                   /\ v[4 * (k - 1) + 3][3] = zb[k] + a.thickness
                   /\ v[4 * (k - 1) + 4][3] = zb[k] + a.thickness
            /\ ExampleBridge(a) =>
                   /\ xs = <<0 - Fx(10), 0, Fx(10)>>
                   /\ Abs(zb[1] - Fx(3)) <= Fx(1) \div 5
                   /\ Abs(zb[2]) <= 1
                   /\ Abs(zb[3] - Fx(3)) <= Fx(1) \div 5

\* The spec's example has been built, with the lower bound at one end and
\* the upper bound at the other.
C21_Witness ==
    /\ DolanBuilt
    /\ ExampleBridge(last.args)
    /\ last.mesh.verts[1][3] < last.mesh.verts[9][3]


\* ---------------------------------------------------------------------
\* C25.  The interval a chain bridge spans along the chain.
\* ---------------------------------------------------------------------
BridgeFrom(d, i) == Fx(i * (d.island_len + d.gap) + d.island_len - d.overlap)

BridgeTo(d, i) == Fx((i + 1) * (d.island_len + d.gap) + d.overlap)

\* C25: for every JJ chain and every i below its number of bridges, bridge
\* i spans the X interval from i*(island_len + gap) + island_len - overlap
\* to (i+1)*(island_len + gap) + overlap, of length gap + 2*overlap, that
\* is overlap into island i and overlap into island i+1; the rectangle of
\* the 2D JJChain and the Dolan bridge of JJChain3D.place, centred on the
\* gap and carried to the chain's location and angle, cover that interval.
C25_BridgeInterval ==
    LET d == parts.chain3d.dims
        c == parts.chain
    IN  /\ c.err = "none" =>
              \A i \in 1..Len(c.value._bridges) :
                  LET b == c.value._bridges[i]
                  IN  /\ b[1] = BridgeFrom(d, i - 1)
                      /\ b[1] + b[3] = BridgeTo(d, i - 1)
                      /\ b[3] = Fx(d.gap + 2 * d.overlap)
                      /\ b[1] + Fx(d.overlap) = c.value._islands[i][1] + c.value._islands[i][3]
                      /\ b[1] + b[3] - Fx(d.overlap) = c.value._islands[i + 1][1]
        /\ (Placed("chain3d") /\ last.err = "none" /\ c.err = "none") =>
              /\ Len(last.bridges) = Len(c.value._bridges)
              /\ \A i \in 1..Len(last.bridges) :
                     LET b == last.bridges[i]
                     IN  /\ b.total_length = BridgeTo(d, i - 1) - BridgeFrom(d, i - 1)
                         /\ b.rotation = last.angle
                         /\ b.centre =
                               Add(last.xy,
                                   Rot(<<Half(BridgeFrom(d, i - 1) + BridgeTo(d, i - 1)), 0>>,
                                       last.angle))

\* Five bridges placed in 3D at a quarter turn away from the origin.
C25_Witness ==
    /\ Placed("chain3d")
    /\ last.err = "none"
    /\ Len(last.bridges) = 5
    /\ Len(parts.chain.value._bridges) = 5
    /\ last.angle = 90
    /\ last.xy # <<0, 0>>


\* ---------------------------------------------------------------------
\* C28.  The built length of a chain against the requested length.
\* ---------------------------------------------------------------------
\* C28: for JJChainDims with length >= 0, island_len > 0 and gap >= 0 the
\* chain is built, length - gap < total_length <= length + island_len,
\* total_length >= island_len and there is at least one island; in 2D
\* (JJChain.total_length) and in 3D (the value JJChain3D.place returns).
C28_TotalLengthBounds ==
    LET d == parts.chain3d.dims
        c == parts.chain
    IN  (d.length >= 0 /\ d.island_len > 0 /\ d.gap >= 0) =>
            /\ c.err = "none"
            /\ Fx(d.length - d.gap) < c.value.total_length
            /\ c.value.total_length <= Fx(d.length + d.island_len)
            /\ c.value.total_length >= Fx(d.island_len)
            /\ Len(c.value._islands) >= 1
            /\ Placed("chain3d") =>
                  /\ last.err = "none"
                  /\ Fx(d.length - d.gap) < last.value
                  /\ last.value <= Fx(d.length + d.island_len)
                  /\ last.value >= Fx(d.island_len)
                  /\ Len(last.islands) >= 1

\* A requested length that is a whole number of periods: the chain built
\* in 3D is longer than requested by exactly island_len.
C28_Witness ==
    /\ Placed("chain3d")
    /\ parts.chain3d.dims.length = 70
    /\ parts.chain3d.dims.island_len = 20
    /\ last.value = Fx(90)
    /\ parts.chain.value.total_length = Fx(90)


\* ---------------------------------------------------------------------
\* The path sweep (visualization_3d/primitives.py, create_extruded_path).
\* Lengths are in 1/120 units.  The centreline points are drawn from
\* PathPoints, whose mutual distances are whole, so that every unit
\* tangent is exact.
\* ---------------------------------------------------------------------
MaxPathLen == 3

PathPoints == {<<0, 0>>, <<Fx(30), 0>>, <<Fx(60), 0>>, <<Fx(30), Fx(40)>>}

\* The largest r in lo..hi with r*r <= n (lo*lo <= n < (hi + 1)*(hi + 1)).
RECURSIVE SqrtBetween(_, _, _)
SqrtBetween(n, lo, hi) ==
    IF lo = hi THEN lo
    ELSE LET mid == (lo + hi + 1) \div 2
         IN  IF mid * mid <= n
             THEN SqrtBetween(n, mid, hi)
             ELSE SqrtBetween(n, lo, mid - 1)

\* math.hypot(tx, ty), rounded down to 1/120.
Hypot(tx, ty) == SqrtBetween(tx * tx + ty * ty, 0, Abs(tx) + Abs(ty))

\* The tangent taken at point i (from 1): the segment after the first
\* point, the segment before the last, the chord between the two
\* neighbours elsewhere.
PathTangent(pts, i) ==
    IF i = 1 THEN Sub(pts[2], pts[1])
    ELSE IF i = Len(pts) THEN Sub(pts[i], pts[i - 1])
    ELSE Sub(pts[i + 1], pts[i - 1])

\* The mutant of PathOffset: no fallback, the zero tangent is kept.
PathOffsetKeepsZeroTangent(pts, i, hw) ==
    LET t    == PathTangent(pts, i)
        tlen == Hypot(t[1], t[2])
    IN  IF tlen = 0
        THEN <<0, 0>>
        ELSE <<((0 - t[2]) * hw) \div tlen, (t[1] * hw) \div tlen>>

\* (nx * hw, ny * hw): the unit tangent, or (1, 0) when tlen < 1e-9,
\* turned a quarter turn counter-clockwise and scaled by the half width.
PathOffset(pts, i, hw) ==
    LET t    == PathTangent(pts, i)
        tlen == Hypot(t[1], t[2])
    IN  IF tlen = 0
        THEN <<0, hw>>
        ELSE <<((0 - t[2]) * hw) \div tlen, (t[1] * hw) \div tlen>>

\* bm.verts.new, four per point: v_bl, v_br, v_tr, v_tl.
PathVerts(pts, hw, hh) ==
    [j \in 1..(4 * Len(pts)) |->
        LET i   == (j - 1) \div 4 + 1
            k   == (j - 1) % 4
            off == PathOffset(pts, i, hw)
        IN  IF k \in {0, 3}
            THEN <<pts[i][1] + off[1], pts[i][2] + off[2],
                   IF k = 0 THEN 0 - hh ELSE hh>>
            ELSE <<pts[i][1] - off[1], pts[i][2] - off[2],
                   IF k = 1 THEN 0 - hh ELSE hh>>]

\* bm.faces.new in source order; ring i holds vertices 4i+1 .. 4i+4 as
\* bl, br, tr, tl.
PathFaces(n) ==
    [j \in 1..(4 * (n - 1) + 2) |->
        IF j <= 4 * (n - 1)
        THEN LET i   == (j - 1) \div 4
                 k   == (j - 1) % 4
                 bl0 == 4 * i + 1
                 br0 == 4 * i + 2
                 tr0 == 4 * i + 3
                 tl0 == 4 * i + 4
                 bl1 == 4 * i + 5
                 br1 == 4 * i + 6
                 tr1 == 4 * i + 7
                 tl1 == 4 * i + 8
             IN  CASE k = 0 -> <<bl0, br0, br1, bl1>>
                   [] k = 1 -> <<tl0, tl1, tr1, tr0>>
                   [] k = 2 -> <<bl0, bl1, tl1, tl0>>
                   [] k = 3 -> <<br0, tr0, tr1, br1>>
        ELSE IF j = 4 * (n - 1) + 1
        THEN <<1, 4, 3, 2>>
        ELSE LET bl == 4 * (n - 1) + 1
             IN  <<bl, bl + 1, bl + 2, bl + 3>>]

\* create_extruded_path(points_2d, width, height, location, name,
\* material, rotation_euler): None for fewer than two points, else the
\* object with its mesh.
ExtrudedPath(a) ==
    IF Len(a.points_2d) < 2
    THEN [ret |-> "None", mesh |-> NoMesh]
    ELSE [ret |-> "object",
          mesh |-> [verts |-> PathVerts(a.points_2d, a.width \div 2,
                                        a.height \div 2),
                    faces |-> PathFaces(Len(a.points_2d))],
          location |-> a.location,
          rotation_euler |-> a.rotation_euler,
          materials |-> IF a.material = "None" THEN <<>> ELSE <<a.material>>]

\* The centrelines: every sequence of up to MaxPathLen points.
PathLines == UNION {[1..n -> PathPoints] : n \in 0..MaxPathLen}

PathCalls ==
    {[points_2d |-> pts, width |-> w, height |-> Fx(3),
      location |-> <<0, 0, 0>>, rotation_euler |-> <<0, 0, 0>>,
      material |-> "aluminum"] : pts \in PathLines, w \in {Fx(10), Fx(4)}}
    \cup
    {[points_2d |-> pts, width |-> Fx(10), height |-> Fx(1),
      location |-> <<Fx(10), 0, Fx(3)>>, rotation_euler |-> <<0, 0, 90>>,
      material |-> "None"] : pts \in [1..2 -> PathPoints]}

InitPath ==
    /\ configs = <<>>
    /\ lattices = <<>>
    /\ outcome = <<>>
    /\ parts = <<>>
    /\ last = [op |-> "none"]
    /\ views = NoViews
    /\ scene = NoScene

CreateExtrudedPath ==
    /\ \E a \in PathCalls :
          last' = [op |-> "create_extruded_path", args |-> a] @@ ExtrudedPath(a)
    /\ UNCHANGED <<latticeVars, parts, views, scene>>

NextPath == CreateExtrudedPath

SpecPath == InitPath /\ [][NextPath]_vars

\* ---------------------------------------------------------------------
\* C22, C30.  The swept path.
\* ---------------------------------------------------------------------
PathBuilt == last.op = "create_extruded_path" /\ last.ret = "object"

\* C22: in create_extruded_path a centreline point whose tangent has zero
\* length (first two points coincide, last two points coincide, or the two
\* neighbours of an interior point coincide) does not stop the call: the
\* object is returned, the tangent there is (1, 0) and the normal (0, 1),
\* so the ring at that point is its four corners at y -+ width/2 and
\* z -+ height/2, at full width.
C22_ZeroTangentFallback ==
    (last.op = "create_extruded_path" /\ Len(last.args.points_2d) >= 2) =>
        /\ last.ret = "object"
        /\ \A i \in 1..Len(last.args.points_2d) :
               LET pts == last.args.points_2d
                   hw  == last.args.width \div 2
                   hh  == last.args.height \div 2
                   v   == last.mesh.verts
               IN  PathTangent(pts, i) = <<0, 0>> =>
                       /\ v[4 * i - 3] = <<pts[i][1], pts[i][2] + hw, 0 - hh>>
                       /\ v[4 * i - 2] = <<pts[i][1], pts[i][2] - hw, 0 - hh>>
                       /\ v[4 * i - 1] = <<pts[i][1], pts[i][2] - hw, hh>>
                       /\ v[4 * i]     = <<pts[i][1], pts[i][2] + hw, hh>>
                       /\ v[4 * i - 3][2] - v[4 * i - 2][2] = last.args.width

\* Three points, the first two coincident and the last elsewhere: the
\* first tangent is zero and the last is not.
C22_Witness ==
    /\ PathBuilt
    /\ Len(last.args.points_2d) = 3
    /\ last.args.points_2d[1] = last.args.points_2d[2]
    /\ last.args.points_2d[3] # last.args.points_2d[2]
    /\ PathTangent(last.args.points_2d, 1) = <<0, 0>>
    /\ PathTangent(last.args.points_2d, 3) # <<0, 0>>

\* A straight path along +X: one y, strictly increasing x.
StraightAlongX(pts) ==
    /\ \A i \in DOMAIN pts : pts[i][2] = pts[1][2]
    /\ \A i \in 1..(Len(pts) - 1) : pts[i][1] < pts[i + 1][1]

\* C30: for a centreline of n >= 2 points create_extruded_path builds a
\* mesh of 4*n vertices and 4*(n - 1) + 2 quads in which every edge of a
\* face is traversed once in that direction and once in the opposite one;
\* for a straight path along +X the quads lying at z = -height/2 are wound
\* with their normal toward -Z and the quads at z = +height/2 toward +Z;
\* with fewer than 2 points it returns None and builds nothing.
C30_PathMeshClosedOutward ==
    last.op = "create_extruded_path" =>
        LET pts  == last.args.points_2d
            n    == Len(pts)
            hh   == last.args.height \div 2
            mesh == last.mesh
        IN  IF n < 2
            THEN last.ret = "None" /\ mesh = NoMesh
            ELSE /\ last.ret = "object"
                 /\ Len(mesh.verts) = 4 * n
                 /\ Len(mesh.faces) = 4 * (n - 1) + 2
                 /\ \A j \in DOMAIN mesh.faces :
                        LET f == mesh.faces[j]
                        IN  /\ Len(f) = 4
                            /\ Cardinality({f[k] : k \in 1..4}) = 4
                            /\ \A e \in FaceEdges(f) :
                                   /\ Traversals(mesh, e) = 1
                                   /\ Traversals(mesh, <<e[2], e[1]>>) = 1
                            /\ StraightAlongX(pts) =>
                                   /\ (\A k \in 1..4 : mesh.verts[f[k]][3] = 0 - hh)
                                          => FaceNormal(mesh, f)[3] < 0
                                   /\ (\A k \in 1..4 : mesh.verts[f[k]][3] = hh)
                                          => FaceNormal(mesh, f)[3] > 0


\* ---------------------------------------------------------------------
\* Two lattices built from one LatticeConfig object (lattice.py,
\* SquareLattice.__init__): the first with the default dimensions, the
\* second with any of the others.
\* ---------------------------------------------------------------------
OtherCoupler == CHOOSE t \in CouplerChoices : t # DefaultCoupler

\* The (pitch, pad_gap) of the shared config and the dimensions of the
\* second lattice: every pitch with the default fluxonium, and every
\* fluxonium with pitch 0.
SharedCalls ==
    {<<pg, DefaultFluxonium, OtherCoupler>> : pg \in PitchChoices}
    \cup {<<<<0, 20>>, f, OtherCoupler>> : f \in FluxoniumChoices}

InitShared ==
    \E call \in SharedCalls :
      LET pg == call[1]
          f  == call[2]
          t  == call[3]
      IN
        /\ configs = [i \in {1} |->
              [rows |-> 2, cols |-> 2, pitch |-> pg[1], pad_gap |-> pg[2]]]
        /\ lattices = [i \in {1, 2} |->
              IF i = 1 THEN NewLattice(1, DefaultFluxonium, DefaultCoupler)
              ELSE NewLattice(1, f, t)]
        /\ outcome = [i \in {1, 2} |-> [op |-> "none", err |-> "none"]]
        /\ parts = <<>>
        /\ last = [op |-> "none"]
        /\ views = NoViews
        /\ scene = NoScene

NextShared ==
    \/ \E i \in DOMAIN lattices : Construct(i)
    \/ \E i \in DOMAIN lattices : Place(i)

SpecShared == InitShared /\ [][NextShared]_vars

\* ---------------------------------------------------------------------
\* C29.  The pitch written back into the shared configuration.
\* ---------------------------------------------------------------------
\* The step is the constructor of lattice i.
Constructs(i) == lattices[i].state = "new" /\ lattices'[i].state # "new"

\* The pitch a lattice was laid out with: the x of site (0, 1).
LaidOutPitch(lat) == lat._site_positions[<<0, 1>>][1]

MaxMaterials == 3

\* The keys of the palette dict in get_material.
Palette == {"aluminum", "aluminum2", "junction", "substrate", "coupler"}

\* The keys callers ask for: the palette and one name outside it.
MaterialKeys == Palette \cup {"gold"}

\* f"Mat_{key}"
MatName(key) == <<"Mat_", key>>

\* create_material(name, ...): the material of that name if Blender has one,
\* else a new one.
CreateMaterial(sc, name) ==
    IF name \in DOMAIN sc.materials
    THEN [scene |-> sc, mat |-> sc.materials[name], built |-> FALSE]
    ELSE [scene |-> [sc EXCEPT !.materials = (name :> (sc.issued + 1)) @@ @,
                               !.issued = sc.issued + 1],
          mat   |-> sc.issued + 1,
          built |-> TRUE]

\* get_material(key)
GetMaterial ==
    /\ \E key \in MaterialKeys :
          IF key \in DOMAIN scene.cache
          THEN /\ last' = [op |-> "get_material", key |-> key, err |-> "none",
                           mat |-> scene.cache[key], built |-> FALSE]
               /\ scene' = scene
          ELSE IF key \notin Palette
          THEN /\ last' = [op |-> "get_material", key |-> key,
                           err |-> "KeyError", mat |-> 0, built |-> FALSE]
               /\ scene' = scene
          ELSE LET made == CreateMaterial(scene, MatName(key))
               IN  /\ made.built => scene.issued < MaxMaterials
                   /\ last' = [op |-> "get_material", key |-> key,
                               err |-> "none", mat |-> made.mat,
                               built |-> made.built]
                   /\ scene' = [made.scene EXCEPT
                                   !.cache = (key :> made.mat) @@ @]
    /\ UNCHANGED <<latticeVars, parts, views>>

\* A clear_scene that forgets to empty the cache.
ClearSceneKeepsCache ==
    /\ \E kept \in SUBSET (DOMAIN scene.materials) :
          scene' = [scene EXCEPT
                       !.materials = [m \in kept |-> scene.materials[m]]]
    /\ last' = [op |-> "clear_scene", err |-> "none"]
    /\ UNCHANGED <<latticeVars, parts, views>>

\* clear_scene(): every object is deleted, every material left without a
\* user is removed (one that still has a user stays), and the cache is
\* emptied.
ClearScene ==
    /\ \E kept \in SUBSET (DOMAIN scene.materials) :
          scene' = [scene EXCEPT
                       !.materials = [m \in kept |-> scene.materials[m]],
                       !.cache = <<>>]
    /\ last' = [op |-> "clear_scene", err |-> "none"]
    /\ UNCHANGED <<latticeVars, parts, views>>

InitScene ==
    /\ configs = <<>>
    /\ lattices = <<>>
    /\ outcome = <<>>
    /\ parts = <<>>
    /\ last = [op |-> "none"]
    /\ views = NoViews
    /\ scene = NoScene

NextScene ==
    \/ GetMaterial
    \/ ClearScene

SpecScene == InitScene /\ [][NextScene]_vars

\* ---------------------------------------------------------------------
\* C27.  The material cache over get_material and clear_scene calls.
\* ---------------------------------------------------------------------
\* The handles of the materials Blender still has.
LiveMaterials == {scene.materials[m] : m \in DOMAIN scene.materials}

\* C27: over any sequence of get_material and clear_scene calls the keys
\* of the cache are palette keys and every cached handle is a material
\* Blender still has; get_material on a cached key returns the cached
\* handle and builds nothing, so between two clear_scene calls a key is
\* built at most once; clear_scene leaves the cache empty; get_material on
\* a key outside the palette raises KeyError and leaves the cache as it was.
C27_MaterialCache ==
    /\ [](/\ DOMAIN scene.cache \subseteq Palette
          /\ \A k \in DOMAIN scene.cache : scene.cache[k] \in LiveMaterials
          /\ last.op = "clear_scene" => DOMAIN scene.cache = {}
          /\ last.op = "get_material" =>
                IF last.key \in Palette
                THEN /\ last.err = "none"
                     /\ last.key \in DOMAIN scene.cache
                     /\ scene.cache[last.key] = last.mat
                ELSE last.err = "KeyError")
    /\ [][/\ (last'.op = "get_material" /\ last'.key \in DOMAIN scene.cache) =>
                /\ last'.mat = scene.cache[last'.key]
                /\ ~last'.built
                /\ scene' = scene
          /\ (last'.op = "get_material" /\ last'.key \notin Palette) =>
                scene'.cache = scene.cache
          /\ scene'.issued <= scene.issued + 1
          /\ scene'.issued = scene.issued + 1 =>
                /\ last'.op = "get_material"
                /\ last'.key \notin DOMAIN scene.cache
         ]_vars

\* A key is fetched again after a clear_scene that removed its material:
\* the cache holds the newly built handle, not the removed one.
C27_Witness ==
    /\ last.op = "get_material"
    /\ last.key = "aluminum"
    /\ last.built
    /\ last.mat = 2
    /\ scene.cache = ("aluminum" :> 2)
    /\ LiveMaterials = {2}


\* ---------------------------------------------------------------------
\* The readout resonator (visualization/primitives.py, Resonator, and
\* visualization_3d/components.py, Resonator3D).  Lengths are in 1/120
\* units, angles in degrees; every angle the builders use is a multiple
\* of 3 degrees.
\* ---------------------------------------------------------------------
MaxTurns == 2

\* Resonator._ARC_PTS, Resonator3D._ARC_PTS
ARC_PTS == 30

\* np.cos at 0, 3, ..., 90 degrees, in units of 1/100000.
CosTable ==
    << 100000, 99863, 99452, 98769, 97815, 96593, 95106, 93358, 91355, 89101,
       86603, 83867, 80902, 77715, 74314, 70711, 66913, 62932, 58779, 54464,
       50000, 45399, 40674, 35837, 30902, 25882, 20791, 15643, 10453, 5234, 0 >>

\* R * np.cos(theta), R * np.sin(theta), rounded to 1/120.
RCos(R, deg) ==
    LET d == deg % 360
        c == IF d <= 90 THEN CosTable[d \div 3 + 1]
             ELSE IF d <= 180 THEN 0 - CosTable[(180 - d) \div 3 + 1]
             ELSE IF d <= 270 THEN 0 - CosTable[(d - 180) \div 3 + 1]
             ELSE CosTable[(360 - d) \div 3 + 1]
    IN  (R * c + 50000) \div 100000

RSin(R, deg) == RCos(R, deg + 270)

\* The centre (cx_q, cy_q) of the quarter circle.
QuarterCentre(d) == <<Fx(d.lead_length), 0 - Fx(d.turn_radius)>>

\* The centre (cx, cy) of U-turn k (from 0): U-turns alternate, bottom
\* first, and x has advanced by R and then by 2R per U-turn.
UTurnCentre(d, k) ==
    << Fx(d.lead_length) + Fx(d.turn_radius) + 2 * Fx(d.turn_radius) * k
          + Fx(d.turn_radius),
       IF k % 2 = 0 THEN 0 - Half(Fx(d.meander_amplitude))
       ELSE Half(Fx(d.meander_amplitude)) >>

\* Resonator._build_meander_path
BuildMeanderPath(d) ==
    LET R       == Fx(d.turn_radius)
        A       == Fx(d.meander_amplitude)
        n       == ARC_PTS
        lead    == << <<0, 0>>, <<Fx(d.lead_length), 0>> >>
        quarter == [i \in 1..n |->
                       LET theta == 90 - (90 * i) \div n
                       IN  << QuarterCentre(d)[1] + RCos(R, theta),
                              QuarterCentre(d)[2] + RSin(R, theta) >>]
        x1      == Fx(d.lead_length) + R
        drop    == IF Half(A) - R > 0 THEN << <<x1, 0 - Half(A)>> >> ELSE <<>>
        turns   == [j \in 1..((n + 1) * d.num_turns) |->
                       LET k     == (j - 1) \div (n + 1)
                           i     == ((j - 1) % (n + 1)) + 1
                           theta == IF k % 2 = 0
                                    THEN 180 + (180 * i) \div n
                                    ELSE 180 - (180 * i) \div n
                       IN  IF i <= n
                           THEN << UTurnCentre(d, k)[1] + RCos(R, theta),
                                   UTurnCentre(d, k)[2] + RSin(R, theta) >>
                           ELSE << x1 + 2 * R * (k + 1),
                                   IF k % 2 = 0 THEN Half(A) ELSE 0 - Half(A) >>]
    IN  lead \o quarter \o drop \o turns

\* Resonator3D._build_centreline
BuildCentreline(d) ==
    LET R       == Fx(d.turn_radius)
        A       == Fx(d.meander_amplitude)
        n       == ARC_PTS
        x0      == Fx(d.lead_length)
        quarter == [i \in 1..n |->
                       LET theta == 90 - (90 * i) \div n
                       IN  <<x0 + RCos(R, theta), (0 - R) + RSin(R, theta)>>]
        x1      == x0 + R
        drop    == IF Half(A) - R > 0 THEN << <<x1, 0 - Half(A)>> >> ELSE <<>>
        turns   == [j \in 1..((n + 1) * d.num_turns) |->
                       LET k     == (j - 1) \div (n + 1)
                           i     == ((j - 1) % (n + 1)) + 1
                           x     == x1 + 2 * R * k
                           bot   == k % 2 = 0
                           cy    == IF bot THEN 0 - Half(A) ELSE Half(A)
                           theta == IF bot
                                    THEN 180 + (180 * i) \div n
                                    ELSE 180 - (180 * i) \div n
                       IN  IF i <= n
                           THEN <<(x + R) + RCos(R, theta), cy + RSin(R, theta)>>
                           ELSE <<x + 2 * R, 0 - cy>>]
    IN  << <<0, 0>>, <<x0, 0>> >> \o quarter \o drop \o turns

\* Resonator.place, the end extension: the centreline gets one more point
\* 0.01 past its end along the unit end tangent.  A zero end tangent divided
\* by its zero norm is NaN (numpy warns, it does not raise), and so is
\* everything computed from that point: nan holds the indices of the
\* centreline points whose ribbon vertices are NaN.
RibbonCentreline(c0) ==
    LET m        == Len(c0)
        end_tang == Sub(c0[m], c0[m - 1])
        end_len  == Hypot(end_tang[1], end_tang[2])
    IN  IF end_len = 0
        THEN [points |-> Append(c0, c0[m]), nan |-> {m, m + 1}]
        ELSE [points |-> Append(c0,
                  << c0[m][1] + (end_tang[1] * 12) \div (end_len * 10),
                     c0[m][2] + (end_tang[2] * 12) \div (end_len * 10) >>),
              nan    |-> {}]

\* Resonator.place, the two sides of the ribbon: the centreline offset by
\* +hw and -hw along the normal.  A tangent of length 0 is divided by 1 and
\* stays (0, 0).  A NaN vertex is written as its centreline point.
RibbonSides(c, nan, hw) ==
    LET n          == Len(c)
        tangent(i) == IF i = 1 THEN Sub(c[2], c[1])
                      ELSE IF i = n THEN Sub(c[n], c[n - 1])
                      ELSE Sub(c[i + 1], c[i - 1])
        offset(i)  == LET t    == tangent(i)
                          len0 == Hypot(t[1], t[2])
                          len  == IF len0 = 0 THEN 1 ELSE len0
                      IN  <<((0 - t[2]) * hw) \div len, (t[1] * hw) \div len>>
    IN  [left  |-> [i \in 1..n |-> IF i \in nan THEN c[i] ELSE Add(c[i], offset(i))],
         right |-> [i \in 1..n |-> IF i \in nan THEN c[i] ELSE Sub(c[i], offset(i))]]

\* The ResonatorDims a caller passes.
ResonatorChoices ==
    {[lead_length |-> l, turn_radius |-> r, meander_amplitude |-> a,
      num_turns |-> t, width |-> 3] :
        l \in {15, 0}, r \in {8, 20, 0}, a \in {30, 16, 10, 0}, t \in 0..MaxTurns}

InitMeander ==
    \E d \in ResonatorChoices :
        /\ configs = <<>>
        /\ lattices = <<>>
        /\ outcome = <<>>
        /\ parts = [resonator |-> [dims |-> d], resonator3d |-> [dims |-> d]]
        /\ last = [op |-> "none"]
        /\ views = NoViews
        /\ scene = NoScene

\* Resonator._build_meander_path()
BuildMeanderPathCall ==
    /\ last' = [op |-> "_build_meander_path",
                points |-> BuildMeanderPath(parts.resonator.dims)]
    /\ UNCHANGED <<latticeVars, parts, views, scene>>

\* Resonator3D._build_centreline()
BuildCentrelineCall ==
    /\ last' = [op |-> "_build_centreline",
                points |-> BuildCentreline(parts.resonator3d.dims)]
    /\ UNCHANGED <<latticeVars, parts, views, scene>>

\* Resonator.place(ax, xy, angle): the centreline, its extension, the two
\* sides and the closed ribbon left ++ reversed right under the base
\* transform.
ResonatorPlaceCall ==
    /\ \E xy \in Origins, angle \in {0, 90} :
       \E c0 \in {BuildMeanderPath(parts.resonator.dims)} :
       \E c \in {RibbonCentreline(c0)} :
       \E s \in {RibbonSides(c.points, c.nan, Fx(parts.resonator.dims.width))} :
          last' = [op |-> "place", part |-> "resonator", xy |-> xy,
                   angle |-> angle,
                   patch |-> [centreline |-> c.points,
                              nan        |-> c.nan,
                              left       |-> s.left,
                              right      |-> s.right,
                              ribbon     |-> s.left \o
                                  [i \in 1..Len(s.right) |->
                                      s.right[Len(s.right) + 1 - i]],
                              base       |-> PlaceBase(xy, angle)]]
    /\ UNCHANGED <<latticeVars, parts, views, scene>>

NextMeander ==
    \/ BuildMeanderPathCall
    \/ BuildCentrelineCall
    \/ ResonatorPlaceCall

SpecMeander == InitMeander /\ [][NextMeander]_vars


\* A centreline has been built for a resonator with a positive turn radius.
MeanderBuilt ==
    /\ last.op \in {"_build_meander_path", "_build_centreline"}
    /\ parts.resonator.dims.turn_radius > 0

\* The point where an arc of radius R about centre begins, at angle deg.
ArcStart(centre, R, deg) == <<centre[1] + RCos(R, deg), centre[2] + RSin(R, deg)>>

\* The index, in the returned points, of the last point emitted before
\* the arc of U-turn k.
BeforeUTurn(d, k) ==
    2 + ARC_PTS
      + (IF Half(Fx(d.meander_amplitude)) - Fx(d.turn_radius) > 0 THEN 1 ELSE 0)
      + k * (ARC_PTS + 1)

\* The quarter circle starts at the end of the lead-in.
QuarterStartsAtLead ==
    MeanderBuilt =>
        LET d == parts.resonator.dims
        IN  ArcStart(QuarterCentre(d), Fx(d.turn_radius), 90) = last.points[2]

\* Every U-turn arc starts at the last point emitted before it.
UTurnsStartAtLastPoint ==
    MeanderBuilt =>
        LET d == parts.resonator.dims
        IN  \A k \in 0..(d.num_turns - 1) :
                ArcStart(UTurnCentre(d, k), Fx(d.turn_radius), 180)
                    = last.points[BeforeUTurn(d, k)]

\* U-turns alternate bottom, top, ... : the arc of U-turn k passes through
\* the lowest point below (k even) or the highest point above (k odd) its
\* centre.
UTurnsAlternate ==
    MeanderBuilt =>
        LET d == parts.resonator.dims
            R == Fx(d.turn_radius)
        IN  \A k \in 0..(d.num_turns - 1) :
                last.points[BeforeUTurn(d, k) + ARC_PTS \div 2]
                    = << UTurnCentre(d, k)[1],
                         IF k % 2 = 0 THEN 0 - Half(Fx(d.meander_amplitude)) - R
                         ELSE Half(Fx(d.meander_amplitude)) + R >>

\* The last point has x = lead_length + turn_radius + 2*turn_radius*num_turns.
LastPointX ==
    MeanderBuilt =>
        LET d == parts.resonator.dims
        IN  last.points[Len(last.points)][1]
                = Fx(d.lead_length) + Fx(d.turn_radius)
                  + 2 * Fx(d.turn_radius) * d.num_turns

\* The 2D and the 3D builder return the same points.
BuildersAgree ==
    MeanderBuilt =>
        BuildMeanderPath(parts.resonator.dims) = BuildCentreline(parts.resonator3d.dims)

\* C26: for turn_radius > 0 and num_turns >= 0 the meander centreline is
\* connected: the quarter circle starts at the end of the lead-in, every
\* U-turn arc starts at the last point emitted before it, U-turns
\* alternate bottom, top, ... from the bottom, the last point has
\* x = lead_length + turn_radius + 2*turn_radius*num_turns, and the 2D and
\* the 3D builder return the same point sequence.
C26_MeanderConnected ==
    /\ QuarterStartsAtLead
    /\ UTurnsStartAtLastPoint
    /\ UTurnsAlternate
    /\ LastPointX
    /\ BuildersAgree


\* Resonator.place has drawn the ribbon of a resonator.
RibbonPlaced == last.op = "place" /\ last.part = "resonator"

\* The extended centreline has two identical consecutive points.
HasCoincidentPoints(c) == \E i \in 1..(Len(c) - 1) : c[i] = c[i + 1]

\* The tangent the ribbon builder takes at vertex i of centreline c is zero.
ZeroTangentAt(c, i) ==
    IF i = 1 THEN c[2] = c[1]
    ELSE IF i = Len(c) THEN c[i] = c[i - 1]
    ELSE c[i + 1] = c[i - 1]

\* The offsets from right to left that a unit normal along an axis gives.
AxisWidths(hw) == {<<0, 2 * hw>>, <<0, 0 - 2 * hw>>, <<2 * hw, 0>>, <<0 - 2 * hw, 0>>}

\* C23: Resonator.place on a centreline with two identical consecutive
\* points produces no NaN coordinate, and at every vertex whose tangent has
\* zero length the normal is a fixed unit axis, so the ribbon keeps its
\* full width there.
C23_DegenerateRibbon ==
    (RibbonPlaced /\ HasCoincidentPoints(BuildMeanderPath(parts.resonator.dims))) =>
        /\ last.patch.nan = {}
        /\ \A i \in 1..Len(last.patch.centreline) :
               (i \notin last.patch.nan /\ ZeroTangentAt(last.patch.centreline, i)) =>
                   Sub(last.patch.left[i], last.patch.right[i])
                       \in AxisWidths(Fx(parts.resonator.dims.width))


\* ---------------------------------------------------------------------
\* Island bar + half-bridge pairs (test_jj_chain_3d.py, test_dual_chain;
\* visualization_3d/components.py, Fluxonium3D.place and DCSqUID3D.place),
\* in the plane.  A pair holds the island cuboid (centre, half extents,
\* rotation), the half-bridge (centre, total_length, width, overlap_len,
\* rotation), the junction point the island is extended past, and the two
\* ends of the connector or leg: span[1] on the island's side, span[2] on
\* the half-bridge's side.  Rotations are multiples of 90 degrees.
\* ---------------------------------------------------------------------

\* _rot2d
Rot2d(x, y, deg) == Rot(<<x, y>>, deg)

\* test_dual_chain: the connector of two chains of JJChainDims(gap=3) that
\* run along +X at y = -sep/2 and y = +sep/2.
DualChainConnector(dims, sep) ==
    LET y1         == 0 - Half(Fx(sep))
        y2         == Half(Fx(sep))
        delta      == Fx(dims.overlap)
        conn_width == Fx(dims.width)
        chain      == JJChain3DPlace(dims, <<0, y1>>, 0)
    IN  IF chain.err # "none"
        THEN [err |-> chain.err, pairs |-> <<>>]
        ELSE LET x_end   == chain.value
                 cx      == x_end + Half(conn_width)
                 y_bot   == y1 - Half(conn_width)
                 y_top   == y2 + Half(conn_width)
                 y_mid   == Half(y1 + y2)
                 bar_len == (y_mid + delta) - y_bot
                 bar_cy  == y_bot + Half(bar_len)
                 hb_len  == y_top - y_mid
                 hb_cy   == y_mid + Half(hb_len)
             IN  [err   |-> "none",
                  pairs |-> << [island |-> [centre   |-> <<cx, bar_cy>>,
                                            half     |-> <<Half(conn_width), Half(bar_len)>>,
                                            rotation |-> 0],
                                bridge |-> [centre       |-> <<cx, hb_cy>>,
                                            total_length |-> hb_len,
                                            width        |-> conn_width * BRIDGE_W_FRAC,
                                            overlap_len  |-> delta,
                                            rotation     |-> 270],
                                junction |-> <<cx, y_mid>>,
                                span     |-> << <<cx, y_bot>>, <<cx, y_top>> >>] >>]

\* Fluxonium3D.place, steps 2 and 3: the two chains and the connector at
\* their far end.
Fluxonium3DConnector(d, location, angle_deg) ==
    LET chain_global_angle == angle_deg + d.chain_angle
        vec_fwd      == Unit(chain_global_angle)
        vec_perp     == Unit(chain_global_angle + 90)
        Scale(v, k)  == <<v[1] * k, v[2] * k>>
        center_start == Add(location, Scale(vec_fwd, Fx(d.chain_start_dist)))
        start_A      == Add(center_start, Scale(vec_perp, Half(Fx(d.chain_separation))))
        start_B      == Sub(center_start, Scale(vec_perp, Half(Fx(d.chain_separation))))
        chain        == JJChain3DPlace(d.chain, start_A, chain_global_angle)
    IN  IF chain.err # "none"
        THEN [err |-> chain.err, pairs |-> <<>>]
        ELSE LET total_len  == chain.value
                 end_A      == Add(start_A, Scale(vec_fwd, total_len))
                 end_B      == Add(start_B, Scale(vec_fwd, total_len))
                 bar_center == <<Half(end_A[1] + end_B[1]), Half(end_A[2] + end_B[2])>>
                 bar_len    == Fx(d.chain_separation + d.connector_bar_extra)
                 bar_h      == Fx(d.connector_bar_height)
                 bar_angle  == chain_global_angle + 90
                 bar_unit   == Unit(bar_angle)
                 overlap    == Fx(d.chain.overlap)
                 island_len == Half(bar_len) + overlap
                 island_center ==
                     Add(bar_center, Scale(bar_unit, Half(Half(bar_len)) - Half(overlap)))
                 hb_len     == Half(bar_len)
                 hb_center  == Sub(bar_center, Scale(bar_unit, Half(Half(bar_len))))
             IN  [err   |-> "none",
                  pairs |-> << [island |-> [centre   |-> island_center,
                                            half     |-> <<Half(island_len), Half(bar_h)>>,
                                            rotation |-> bar_angle],
                                bridge |-> [centre       |-> hb_center,
                                            total_length |-> hb_len,
                                            width        |-> bar_h * BRIDGE_W_FRAC,
                                            overlap_len  |-> overlap,
                                            rotation     |-> bar_angle],
                                junction |-> bar_center,
                                span     |-> << Add(bar_center, Scale(bar_unit, Half(bar_len))),
                                                Sub(bar_center, Scale(bar_unit, Half(bar_len))) >>] >>]

\* DCSqUID3D.place with the half-bridge left at the rotation of the leg.
DCSqUID3DLegsBridgeUnturned(d, location, angle_deg) ==
    LET half_sep   == Half(Fx(d.leg_separation))
        jj_overlap == Fx(3) \div 2
        mid_x      == Half(Fx(d.leg_length))
        local(x, y) == Add(location, Rot2d(x, y, angle_deg))
        leg(sign)  ==
            LET cy_l       == sign * half_sep
                island_len == mid_x + jj_overlap
                hb_len     == Fx(d.leg_length) - mid_x
            IN  [island |-> [centre   |-> local(Half(island_len), cy_l),
                             half     |-> <<Half(island_len), Half(Fx(d.leg_width))>>,
                             rotation |-> angle_deg],
                 bridge |-> [centre       |-> local(mid_x + Half(hb_len), cy_l),
                             total_length |-> hb_len,
                             width        |-> Fx(d.leg_width) * BRIDGE_W_FRAC,
                             overlap_len  |-> jj_overlap,
                             rotation     |-> angle_deg],
                 junction |-> local(mid_x, cy_l),
                 span     |-> <<local(0, cy_l), local(Fx(d.leg_length), cy_l)>>]
    IN  [err |-> "none", pairs |-> <<leg(-1), leg(1)>>]

\* DCSqUID3D.place: the island and the half-bridge of the bottom and of the
\* top leg; jj_overlap = 1.5.
DCSqUID3DLegs(d, location, angle_deg) ==
    LET half_sep   == Half(Fx(d.leg_separation))
        jj_overlap == Fx(3) \div 2
        mid_x      == Half(Fx(d.leg_length))
        local(x, y) == Add(location, Rot2d(x, y, angle_deg))
        leg(sign)  ==
            LET cy_l       == sign * half_sep
                island_len == mid_x + jj_overlap
                island_cx  == Half(island_len)
                hb_len     == Fx(d.leg_length) - mid_x
                hb_cx      == mid_x + Half(hb_len)
            IN  [island |-> [centre   |-> local(island_cx, cy_l),
                             half     |-> <<Half(island_len), Half(Fx(d.leg_width))>>,
                             rotation |-> angle_deg],
                 bridge |-> [centre       |-> local(hb_cx, cy_l),
                             total_length |-> hb_len,
                             width        |-> Fx(d.leg_width) * BRIDGE_W_FRAC,
                             overlap_len  |-> jj_overlap,
                             rotation     |-> angle_deg + 180],
                 junction |-> local(mid_x, cy_l),
                 span     |-> <<local(0, cy_l), local(Fx(d.leg_length), cy_l)>>]
    IN  [err |-> "none", pairs |-> <<leg(-1), leg(1)>>]

\* The FluxoniumDims and DCSqUIDDims a caller passes.
Fluxonium3DChoices ==
    {[chain_separation |-> s[1], chain_start_dist |-> 15, chain_angle |-> a,
      connector_bar_extra |-> s[2], connector_bar_height |-> 6, chain |-> c] :
        s \in {<<40, 6>>, <<20, 0>>},
        a \in {-45, 0},
        c \in {[length |-> 200, width |-> 15, island_len |-> 20, gap |-> 15, overlap |-> 6],
               [length |-> 70, width |-> 12, island_len |-> 20, gap |-> 15, overlap |-> 4],
               [length |-> 50, width |-> 10, island_len |-> 20, gap |-> -20, overlap |-> 6]}}

DCSqUID3DChoices ==
    {[leg_length |-> l, leg_separation |-> 20, leg_width |-> 3, u_bar_width |-> 3] :
        l \in {40, 10, 2}}

InitConnector ==
    \E f \in Fluxonium3DChoices, s \in DCSqUID3DChoices :
        /\ configs = <<>>
        /\ lattices = <<>>
        /\ outcome = <<>>
        /\ parts = [fluxonium3d |-> [dims |-> f], squid3d |-> [dims |-> s]]
        /\ last = [op |-> "none"]
        /\ views = NoViews
        /\ scene = NoScene

\* test_dual_chain()
TestDualChainCall ==
    /\ last' = [op |-> "test_dual_chain"]
               @@ DualChainConnector(
                      [length |-> 200, width |-> 15, island_len |-> 20,
                       gap |-> 3, overlap |-> 6], 15)
    /\ UNCHANGED <<latticeVars, parts, views, scene>>

\* Fluxonium3D.place(location, angle_deg), for the angles that put the
\* chains along an axis.
Fluxonium3DPlaceCall ==
    /\ \E xy \in Origins, angle \in {0, 45, 90, 135, 180} :
          /\ (angle + parts.fluxonium3d.dims.chain_angle) % 90 = 0
          /\ last' = [op |-> "place", part |-> "fluxonium3d", xy |-> xy,
                      angle |-> angle]
                     @@ Fluxonium3DConnector(parts.fluxonium3d.dims, xy, angle)
    /\ UNCHANGED <<latticeVars, parts, views, scene>>

\* DCSqUID3D.place(location, angle_deg)
DCSqUID3DPlaceCall ==
    /\ \E xy \in Origins, angle \in PlaceAngles :
          last' = [op |-> "place", part |-> "squid3d", xy |-> xy, angle |-> angle]
                  @@ DCSqUID3DLegs(parts.squid3d.dims, xy, angle)
    /\ UNCHANGED <<latticeVars, parts, views, scene>>

NextConnector ==
    \/ TestDualChainCall
    \/ Fluxonium3DPlaceCall
    \/ DCSqUID3DPlaceCall

SpecConnector == InitConnector /\ [][NextConnector]_vars

\* An island bar and a half-bridge have been placed as a pair.
PairPlaced == "pairs" \in DOMAIN last /\ last.pairs # <<>>

\* The point of a half-bridge at local x on its centre line, after its
\* rotation about its centre.
BridgePoint(b, x) == Add(b.centre, Rot(<<x, 0>>, b.rotation))

\* The position of point p along the connector of pair pr, measured from
\* span[1] towards span[2] in units of 1/length of the connector.
Along(pr, p) == Dot(Sub(p, pr.span[1]), Sub(pr.span[2], pr.span[1]))

\* The point p lies on the centre line of the connector of pair pr.
OnAxis(pr, p) ==
    LET a == Sub(p, pr.span[1])
        b == Sub(pr.span[2], pr.span[1])
    IN  a[1] * b[2] - a[2] * b[1] = 0

\* The length of the connector of pair pr.
SpanLength(pr) ==
    Hypot(pr.span[2][1] - pr.span[1][1], pr.span[2][2] - pr.span[1][2])

\* How far the island of pair pr reaches from its centre along the connector.
IslandReach(pr) ==
    LET b == Sub(pr.span[2], pr.span[1])
    IN  Abs(Dot(Rot(<<pr.island.half[1], 0>>, pr.island.rotation), b))
        + Abs(Dot(Rot(<<0, pr.island.half[2]>>, pr.island.rotation), b))

\* The raised end of the half-bridge lies exactly over the part of the
\* island past the junction, the low end on the other side, and island
\* and half-bridge cover the connector.
PairAligned(pr) ==
    LET L        == pr.bridge.total_length
        ov       == pr.bridge.overlap_len
        raisedLo == BridgePoint(pr.bridge, Half(L) - ov)
        raisedHi == BridgePoint(pr.bridge, Half(L))
        low      == BridgePoint(pr.bridge, 0 - Half(L))
        J        == Along(pr, pr.junction)
        islandLo == Along(pr, pr.island.centre) - IslandReach(pr)
        islandHi == Along(pr, pr.island.centre) + IslandReach(pr)
    IN  /\ OnAxis(pr, pr.island.centre) /\ OnAxis(pr, pr.junction)
        /\ OnAxis(pr, raisedLo) /\ OnAxis(pr, raisedHi) /\ OnAxis(pr, low)
        /\ islandHi = J + ov * SpanLength(pr)
        /\ Along(pr, raisedHi) = J
        /\ Along(pr, raisedLo) = islandHi
        /\ islandLo < J
        /\ Along(pr, low) > J
        /\ islandLo = 0
        /\ Along(pr, low) = Along(pr, pr.span[2])

\* C24: wherever a half-bridge is paired with an island bar (dual-chain
\* connector, Fluxonium3D connector, each DCSqUID3D leg), after the
\* half-bridge's rotation its raised end (local x from total_length/2 -
\* overlap_len to total_length/2) lies exactly over the part of the island
\* that extends past the junction point by overlap_len, its low end lies on
\* the side away from the island, and island plus half-bridge cover the
\* whole connector or leg with no gap.
C24_HalfBridgeOverIsland ==
    PairPlaced => \A k \in 1..Len(last.pairs) : PairAligned(last.pairs[k])

\* The Fluxonium3D connector has been placed away from the origin with the
\* qubit turned by 45 degrees, and its island extends past the bar centre.
C24_Witness ==
    /\ PairPlaced
    /\ last.op = "place"
    /\ last.part = "fluxonium3d"
    /\ last.angle = 45
    /\ last.xy # <<0, 0>>
    /\ last.pairs[1].bridge.overlap_len > 0

====
